---------------------------- MODULE Spec2Model ----------------------------
(***************************************************************************)
(* Verification model of the SPC computation code of EWMA_Cusum_pro:       *)
(*   - calculateEWMA / calculateCUSUM        (utils/dataUtils, App.tsx)     *)
(*   - CUSUMChart.chartData                   (pages/CUSUMChart, part_000)  *)
(*   - EWMAChart.chartData, checkControlRules (pages/EWMAChart.tsx)         *)
(*   - calculateStatistics, calculateProcessCapability, detectOutliersIQR, *)
(*     detectOutliersModifiedZScore, interpolateData, smoothData (App.tsx) *)
(*   - CUSUMChart.analysisResults             (pages/CUSUMChart, part_000)  *)
(*   - useAlarmStore: addRecord, acknowledgeAlarm, resolveAlarm            *)
(*                                            (store/dataStore.ts)         *)
(*   - handleVariableChange, loadDataForSelectedVariable of both chart     *)
(*     pages, with the extractions they start in flight                    *)
(*                                                                         *)
(* Numbers.  The code computes with IEEE doubles.  The model computes with *)
(* exact rationals <<n, d>> (d > 0, lowest terms); on the inputs the       *)
(* specifications draw (small integers, halves and quarters) every sum and *)
(* product of the code is exact in a double as well, so the two agree.     *)
(* A control limit target +/- L*sigma*sqrt(q) is kept as the triple        *)
(* [base, coef, rad] standing for base + coef*sqrt(rad); comparing a       *)
(* rational with it is done on the squares.                                *)
(* Where the code can divide by 0 or meet a NaN (statistics, capability,   *)
(* outlier scores, preprocessing) a number is an extended rational:        *)
(* <<n, d>> with d > 0, or <<1, 0>> (Infinity), <<-1, 0>> (-Infinity),     *)
(* <<0, 0>> (NaN), with the results IEEE 754 gives for them.  The sign of  *)
(* a zero is not kept: every divisor that can be 0 in these functions is   *)
(* +0 (a square root, or a median of absolute values).                     *)
(* The default lambda = 0.2 and measurements with decimals are not exact   *)
(* in a double.  For them the EWMA recurrence is also computed in IEEE 754 *)
(* binary64 itself (SpecFloat): a number is [m, e] standing for m * 2^e    *)
(* with a significand m of exactly 53 bits, kept as a sequence of limbs,   *)
(* and every product, sum and difference is rounded to nearest, ties to    *)
(* even, as the hardware rounds it.                                        *)
(***************************************************************************)
EXTENDS Integers, Sequences, FiniteSets, TLC

VARIABLES
    rawData,        \* the measurement values handed to a pass, in order
    cusumParams,    \* [target, sigma, k, h, fastInitialResponse]
    ewmaParams,     \* [lambda, target, sigma, L]
    cusumChart,     \* CUSUMChart: the memoised chartData
    analysisResults, \* CUSUMChart: the memoised analysisResults
    cusumResults,   \* what calculateCUSUM returned
    ewmaChart,      \* EWMAChart: the memoised chartData
    ewmaResults,    \* what calculateEWMA returned
    thrown,         \* the error a call has thrown, "none" when none has
    done,           \* the passes that have run on the current inputs
    statParams,     \* [lsl, usl, target, multiplier, threshold]
    statistics,     \* what calculateStatistics(rawData) returned or threw
    capability,     \* what calculateProcessCapability returned or threw
    iqrOutliers,    \* what detectOutliersIQR returned or threw
    mzOutliers,     \* what detectOutliersModifiedZScore returned or threw
    inputValues,    \* the values of the caller's data points before any call
    dataPoints,     \* the values the caller's data point objects hold now
    windowSize,     \* the windowSize handed to smoothData
    interpolated,   \* the values of the points interpolateData returned
    smoothed,       \* the values of the points smoothData returned
    ewmaChart64,    \* EWMAChart: ewma and Rule 2 of chartData in binary64
    ewmaResults64,  \* calculateEWMA: ewma of the results in binary64
    records,        \* useAlarmStore: the alarm records, in the order added
    activeAlarms,   \* useAlarmStore: the stored list of active alarms
    page,           \* the chart page that is mounted, or "none"
    selectedVariable, \* useDataStore: columnIndex of the selected variable
    pending,        \* extractDataForVariable promises in flight, per column
    selections      \* number of handleVariableChange calls so far

\* the state of the chart passes, of the statistics functions and of the
\* preprocessing functions
chartVars == <<cusumParams, ewmaParams, cusumChart, analysisResults,
               cusumResults, ewmaChart, ewmaResults>>
statVars == <<statParams, statistics, capability, iqrOutliers, mzOutliers>>
prepVars == <<inputValues, dataPoints, windowSize, interpolated, smoothed>>

float64Vars == <<ewmaChart64, ewmaResults64>>
alarmVars == <<records, activeAlarms>>
selectVars == <<page, selectedVariable, pending, selections>>
otherVars == <<float64Vars, alarmVars, selectVars>>

vars == <<rawData, chartVars, thrown, done, statVars, prepVars, otherVars>>

---------------------------------------------------------------------------
(* Exact rational arithmetic.                                              *)

Abs(x) == IF x < 0 THEN -x ELSE x

RECURSIVE GCD(_, _)
GCD(a, b) == IF b = 0 THEN a ELSE GCD(b, a % b)

\* n/d in lowest terms with a positive denominator (d # 0)
Rat(n, d) ==
    LET g == GCD(Abs(n), Abs(d))
        s == IF d < 0 THEN -1 ELSE 1
    IN  <<(s * n) \div g, (s * d) \div g>>

RInt(i) == <<i, 1>>
Zero == RInt(0)
One == RInt(1)
Two == RInt(2)

RNeg(x) == <<-x[1], x[2]>>

RAdd(x, y) ==
    LET g == GCD(x[2], y[2])
    IN  Rat(x[1] * (y[2] \div g) + y[1] * (x[2] \div g), x[2] * (y[2] \div g))

RSub(x, y) == RAdd(x, RNeg(y))

RMul(x, y) ==
    LET g1 == GCD(Abs(x[1]), y[2])
        g2 == GCD(Abs(y[1]), x[2])
    IN  Rat((x[1] \div g1) * (y[1] \div g2), (x[2] \div g2) * (y[2] \div g1))

\* x / y for y # 0
RDiv(x, y) == RMul(x, Rat(y[2], y[1]))

RLt(x, y) ==
    LET g == GCD(x[2], y[2])
    IN  x[1] * (y[2] \div g) < y[1] * (x[2] \div g)

RGt(x, y) == RLt(y, x)
RLe(x, y) == ~RLt(y, x)
RGe(x, y) == ~RLt(x, y)

\* Math.max, Math.min, Math.abs
RMax(x, y) == IF RLt(x, y) THEN y ELSE x
RMin(x, y) == IF RLt(y, x) THEN y ELSE x
RAbs(x) == IF x[1] < 0 THEN RNeg(x) ELSE x

\* acc * x^n, by repeated multiplication
RECURSIVE RPowAcc(_, _, _)
RPowAcc(acc, x, n) ==
    IF n = 0 \/ acc[1] = 0 THEN acc ELSE RPowAcc(RMul(acc, x), x, n - 1)

\* Math.pow(x, n) for an integer n >= 0
RPow(x, n) == RPowAcc(One, x, n)

\* base + coef * sqrt(rad), rad >= 0
Surd(base, coef, rad) == [base |-> base, coef |-> coef, rad |-> rad]

\* x > s and x < s for a rational x and s = base + coef*sqrt(rad)
RGtSurd(x, s) ==
    LET y == RSub(x, s.base)
        y2 == RMul(y, y)
        c2 == RMul(RMul(s.coef, s.coef), s.rad)
    IN  IF s.coef[1] >= 0
        THEN y[1] > 0 /\ RGt(y2, c2)
        ELSE y[1] > 0 \/ RLt(y2, c2)

RLtSurd(x, s) ==
    LET y == RSub(x, s.base)
        y2 == RMul(y, y)
        c2 == RMul(RMul(s.coef, s.coef), s.rad)
    IN  IF s.coef[1] > 0
        THEN y[1] < 0 \/ RLt(y2, c2)
        ELSE y[1] < 0 /\ RGt(y2, c2)

\* IEEE 754 special values, as extended rationals
NaN == <<0, 0>>
Infinity == <<1, 0>>
NegInfinity == <<-1, 0>>

\* isNaN(x), isFinite(x)
IsNaN(x) == x[2] = 0 /\ x[1] = 0
IsFinite(x) == x[2] # 0

\* the sign of x: -1, 0 or 1 (x not NaN)
Sign(x) == IF x[1] > 0 THEN 1 ELSE IF x[1] < 0 THEN -1 ELSE 0

\* -x
XNeg(x) == <<-x[1], x[2]>>

\* x + y: NaN if either is NaN or for Infinity + -Infinity
XAdd(x, y) ==
    IF IsFinite(x) /\ IsFinite(y) THEN RAdd(x, y)
    ELSE IF IsNaN(x) \/ IsNaN(y) THEN NaN
    ELSE IF IsFinite(x) THEN y
    ELSE IF IsFinite(y) THEN x
    ELSE IF x = y THEN x ELSE NaN

\* x - y
XSub(x, y) == XAdd(x, XNeg(y))

\* x * y: NaN if either is NaN or for 0 * Infinity
XMul(x, y) ==
    IF IsFinite(x) /\ IsFinite(y) THEN RMul(x, y)
    ELSE IF IsNaN(x) \/ IsNaN(y) THEN NaN
    ELSE IF Sign(x) * Sign(y) > 0 THEN Infinity
    ELSE IF Sign(x) * Sign(y) < 0 THEN NegInfinity
    ELSE NaN

\* x / y: x / 0 is Infinity, -Infinity or NaN by the sign of x (the divisor
\* 0 is +0), finite / Infinity is 0, Infinity / Infinity is NaN
XDiv(x, y) ==
    IF IsNaN(x) \/ IsNaN(y) THEN NaN
    ELSE IF IsFinite(y)
         THEN IF y[1] = 0
              THEN <<Sign(x), 0>>
              ELSE IF IsFinite(x) THEN RDiv(x, y)
                   ELSE <<Sign(x) * Sign(y), 0>>
         ELSE IF IsFinite(x) THEN Zero ELSE NaN

\* x < y and x > y: false when either is NaN
XLt(x, y) ==
    /\ ~IsNaN(x) /\ ~IsNaN(y)
    /\ IF IsFinite(x) /\ IsFinite(y) THEN RLt(x, y)
       ELSE IF IsFinite(x) THEN Sign(y) > 0
       ELSE IF IsFinite(y) THEN Sign(x) < 0
       ELSE Sign(x) < Sign(y)
XGt(x, y) == XLt(y, x)

\* Math.abs(x), Math.min(x, y): NaN if an argument is NaN
XAbs(x) == <<Abs(x[1]), x[2]>>
XMin(x, y) ==
    IF IsNaN(x) \/ IsNaN(y) THEN NaN ELSE IF XLt(y, x) THEN y ELSE x

\* the sequences over S of length 0..n
SeqsUpTo(S, n) == UNION {[1..m -> S] : m \in 0..n}

\* the constant sequences over S of length lo..hi
ConstSeqs(S, lo, hi) == {[i \in 1..m |-> v] : v \in S, m \in lo..hi}

---------------------------------------------------------------------------
(* CUSUMChart.chartData (src/unnamed/part_000, lines 225-297).             *)
(* params.k and params.h are used as they are: the page keeps them in data *)
(* units (defaults k = 2.5, h = 20 beside sigma = 5).                      *)

\* (mutant) a head start of 2h instead of h/2
firFactor_Double(params) ==
    IF params.fastInitialResponse THEN RMul(params.h, Two) ELSE Zero

\* const firFactor = params.fastInitialResponse ? params.h / 2 : 0
firFactor(params) ==
    IF params.fastInitialResponse THEN RDiv(params.h, Two) ELSE Zero

\* (mutant) the head start of the upper sum subtracted, not added
NextCusumHigh_HeadStartDown(i, cusumHigh, deviation, params) ==
    IF i = 0 /\ params.fastInitialResponse
    THEN RMax(Zero, RSub(RSub(deviation, params.k), firFactor(params)))
    ELSE RMax(Zero, RSub(RAdd(cusumHigh, deviation), params.k))

\* the upper sum at 0-based index i from the running cusumHigh
NextCusumHigh(i, cusumHigh, deviation, params) ==
    IF i = 0 /\ params.fastInitialResponse
    THEN RMax(Zero, RAdd(RSub(deviation, params.k), firFactor(params)))
    ELSE RMax(Zero, RSub(RAdd(cusumHigh, deviation), params.k))

\* (mutant) the head start of the lower sum added, not subtracted
NextCusumLow_HeadStartUp(i, cusumLow, deviation, params) ==
    IF i = 0 /\ params.fastInitialResponse
    THEN RMin(Zero, RAdd(RAdd(deviation, params.k), firFactor(params)))
    ELSE RMin(Zero, RAdd(RAdd(cusumLow, deviation), params.k))

\* the lower sum at 0-based index i from the running cusumLow
NextCusumLow(i, cusumLow, deviation, params) ==
    IF i = 0 /\ params.fastInitialResponse
    THEN RMin(Zero, RSub(RAdd(deviation, params.k), firFactor(params)))
    ELSE RMin(Zero, RAdd(RAdd(cusumLow, deviation), params.k))

\* (mutant) the comparison with the decision limit made non-strict
ChartIsOutOfControl_NonStrict(cusumHigh, cusumLow, params) ==
    RGe(cusumHigh, params.h) \/ RLe(cusumLow, RNeg(params.h))

\* const isOutOfControl = cusumHigh > params.h || cusumLow < -params.h
ChartIsOutOfControl(cusumHigh, cusumLow, params) ==
    RGt(cusumHigh, params.h) \/ RLt(cusumLow, RNeg(params.h))

\* (mutant) the jumps compared with h / 2 non-strictly
ChartChangePoint_NonStrict(prevPoint, cusumHigh, cusumLow, isOutOfControl, params) ==
    \/ (~prevPoint.isOutOfControl /\ isOutOfControl)
    \/ RGe(RAbs(RSub(cusumHigh, prevPoint.cusumHigh)), RDiv(params.h, Two))
    \/ RGe(RAbs(RSub(cusumLow, prevPoint.cusumLow)), RDiv(params.h, Two))

\* changePoint of the point at 0-based index i > 0, prevPoint = data[i - 1]
ChartChangePoint(prevPoint, cusumHigh, cusumLow, isOutOfControl, params) ==
    \/ (~prevPoint.isOutOfControl /\ isOutOfControl)
    \/ RGt(RAbs(RSub(cusumHigh, prevPoint.cusumHigh)), RDiv(params.h, Two))
    \/ RGt(RAbs(RSub(cusumLow, prevPoint.cusumLow)), RDiv(params.h, Two))

\* one iteration of the for loop: the point pushed at 0-based index
\* i = data.length (the accumulators cusumHigh and cusumLow are those of the
\* point pushed last, 0 before the first)
CUSUMChartPoint(data, raw, params) ==
    LET i == Len(data)
        deviation == RSub(raw[i + 1], params.target)
        cusumHigh == NextCusumHigh(i,
                         IF i = 0 THEN Zero ELSE data[i].cusumHigh,
                         deviation, params)
        cusumLow == NextCusumLow(i,
                         IF i = 0 THEN Zero ELSE data[i].cusumLow,
                         deviation, params)
        isOutOfControl == ChartIsOutOfControl(cusumHigh, cusumLow, params)
        changePoint ==
            IF i > 0
            THEN ChartChangePoint(data[i], cusumHigh, cusumLow,
                                  isOutOfControl, params)
            ELSE FALSE
    IN  [index |-> i + 1,
         value |-> raw[i + 1],
         cusumHigh |-> cusumHigh,
         cusumLow |-> cusumLow,
         upperLimit |-> params.h,
         lowerLimit |-> RNeg(params.h),
         isOutOfControl |-> isOutOfControl,
         changePoint |-> changePoint,
         deviation |-> deviation]

\* the for loop, from the points pushed so far to the end of rawData
RECURSIVE CUSUMChartLoop(_, _, _)
CUSUMChartLoop(data, raw, params) ==
    IF Len(data) = Len(raw) THEN data
    ELSE CUSUMChartLoop(Append(data, CUSUMChartPoint(data, raw, params)),
                        raw, params)

\* useMemo(() => { if (rawData.length === 0) return []; ... return data })
CUSUMChart_chartData(raw, params) ==
    IF Len(raw) = 0 THEN << >> ELSE CUSUMChartLoop(<< >>, raw, params)

---------------------------------------------------------------------------
(* CUSUMChart.analysisResults (src/unnamed/part_000, lines 345-370), the   *)
(* memo recomputed from chartData in the same render.                      *)

\* for (const point of chartData) { currentRun++;
\*   if (point.isOutOfControl) { runLengths.push(currentRun); currentRun = 0 } }
\* from the point at 1-based position n on
RECURSIVE RunLengthsLoop(_, _, _, _)
RunLengthsLoop(runLengths, currentRun, chartData, n) ==
    IF n > Len(chartData) THEN runLengths
    ELSE IF chartData[n].isOutOfControl
         THEN RunLengthsLoop(Append(runLengths, currentRun + 1), 0,
                             chartData, n + 1)
         ELSE RunLengthsLoop(runLengths, currentRun + 1, chartData, n + 1)

\* runLengths.reduce((sum, length) => sum + length, 0)
RECURSIVE SumOfLengths(_)
SumOfLengths(runLengths) ==
    IF Len(runLengths) = 0 THEN 0
    ELSE SumOfLengths(SubSeq(runLengths, 1, Len(runLengths) - 1))
           + runLengths[Len(runLengths)]

\* (mutant) the digits after the first decimal cut off, not rounded
toFixed1_Truncate(x) ==
    LET n == (10 * x[1]) \div x[2]
    IN  [units |-> n \div 10, tenths |-> n % 10]

\* x.toFixed(1) for x >= 0: the decimal string "units.tenths" of the
\* multiple of 0.1 nearest to x, the larger one when two are equally near
toFixed1(x) ==
    LET n == (20 * x[1] + x[2]) \div (2 * x[2])
    IN  [units |-> n \div 10, tenths |-> n % 10]

\* const avgRunLength = runLengths.length > 0 ? sum / runLengths.length
\*                                            : chartData.length
AvgRunLength(runLengths, chartData) ==
    IF Len(runLengths) > 0
    THEN Rat(SumOfLengths(runLengths), Len(runLengths))
    ELSE RInt(Len(chartData))

\* useMemo(() => { ... return { outOfControlPoints, changePoints,
\*   avgRunLength: avgRunLength.toFixed(1), totalRuns: runLengths.length } })
CUSUMChart_analysisResults(chartData) ==
    LET runLengths == RunLengthsLoop(<< >>, 0, chartData, 1)
    IN  [outOfControlPoints |->
             SelectSeq(chartData, LAMBDA point : point.isOutOfControl),
         changePoints |-> SelectSeq(chartData, LAMBDA point : point.changePoint),
         avgRunLength |-> toFixed1(AvgRunLength(runLengths, chartData)),
         totalRuns |-> Len(runLengths)]

---------------------------------------------------------------------------
(* calculateCUSUM (src/src/App.tsx, lines 420-470).                        *)

\* (mutant) the reference value taken as k, not k * sigma
kValue_Unscaled(k, sigma) == k

\* (mutant) the decision interval taken as h, not h * sigma
hValue_Unscaled(h, sigma) == h

\* const kValue = k * sigma;  const hValue = h * sigma
kValue(k, sigma) == RMul(k, sigma)
hValue(h, sigma) == RMul(h, sigma)

\* cusumPos = Math.max(0, cusumPos + (point.value - target) - kValue)
NextCusumPos(cusumPos, value, target, kv) ==
    RMax(Zero, RSub(RAdd(cusumPos, RSub(value, target)), kv))

\* (mutant) the lower sum without its clamp at 0
NextCusumNeg_NoClamp(cusumNeg, value, target, kv) ==
    RSub(RSub(cusumNeg, RSub(value, target)), kv)

\* cusumNeg = Math.max(0, cusumNeg - (point.value - target) - kValue)
NextCusumNeg(cusumNeg, value, target, kv) ==
    RMax(Zero, RSub(RSub(cusumNeg, RSub(value, target)), kv))

\* const isOutOfControl = cusumPos > hValue || cusumNeg > hValue
CalcIsOutOfControl(cusumPos, cusumNeg, hv) ==
    RGt(cusumPos, hv) \/ RGt(cusumNeg, hv)

\* the backward scan for (let i = index; i >= 0; i--): the latest earlier
\* in-control result decides; "undefined" when there is none or the point
\* is in control or first (results[index] is not pushed yet)
CalcChangePoint(results, index, isOutOfControl) ==
    LET inControl == {j \in 0..(index - 1) : ~results[j + 1].isOutOfControl}
    IN  IF isOutOfControl /\ index > 0 /\ inControl # {}
        THEN (CHOOSE j \in inControl : \A m \in inControl : m <= j) + 1
        ELSE "undefined"

\* one call of the forEach callback, at index = results.length (cusumPos and
\* cusumNeg are those of the result pushed last, 0 before the first)
CalcCUSUMPoint(results, data, target, kv, hv) ==
    LET index == Len(results)
        cusumPos == NextCusumPos(
                        IF index = 0 THEN Zero ELSE results[index].cusumPos,
                        data[index + 1], target, kv)
        cusumNeg == NextCusumNeg(
                        IF index = 0 THEN Zero ELSE results[index].cusumNeg,
                        data[index + 1], target, kv)
        isOutOfControl == CalcIsOutOfControl(cusumPos, cusumNeg, hv)
    IN  [value |-> data[index + 1],
         cusum |-> RSub(cusumPos, cusumNeg),
         cusumPos |-> cusumPos,
         cusumNeg |-> cusumNeg,
         ucl |-> hv,
         lcl |-> RNeg(hv),
         isOutOfControl |-> isOutOfControl,
         changePoint |-> CalcChangePoint(results, index, isOutOfControl)]

\* data.forEach, from the results pushed so far to the end of data
RECURSIVE CalcCUSUMLoop(_, _, _, _, _)
CalcCUSUMLoop(results, data, target, kv, hv) ==
    IF Len(results) = Len(data) THEN results
    ELSE CalcCUSUMLoop(Append(results,
                              CalcCUSUMPoint(results, data, target, kv, hv)),
                       data, target, kv, hv)

calculateCUSUM(data, target, sigma, k, h) ==
    IF Len(data) = 0 THEN << >>
    ELSE CalcCUSUMLoop(<< >>, data, target, kValue(k, sigma), hValue(h, sigma))

---------------------------------------------------------------------------
(* EWMAChart (src/src/pages/EWMAChart.tsx): checkControlRules,             *)
(* calculateTrend, calculateSigmaLevel and the chartData pass.             *)
(* data holds the points pushed by the first loop; index is 0-based as in  *)
(* the code, so data[index] of the code is data[index + 1] here.  The      *)
(* inputs keep 0 <= lambda < 2, where Math.sqrt has a real argument.       *)

\* (mutant) rule 1 with a point on a limit counted as outside
Rule1_NonStrict(point) ==
    ~RLtSurd(point.ewma, point.ucl) \/ ~RGtSurd(point.ewma, point.lcl)

\* rule 1: point.ewma > point.ucl || point.ewma < point.lcl
Rule1(point) ==
    RGtSurd(point.ewma, point.ucl) \/ RLtSurd(point.ewma, point.lcl)

\* (mutant) rule 2 with a point on the center line counted on either side
Rule2_NonStrict(data, index) ==
    /\ index >= 8
    /\ LET last9 == (index - 7)..(index + 1)
           allAbove == \A j \in last9 : RGe(data[j].ewma, data[j].centerLine)
           allBelow == \A j \in last9 : RLe(data[j].ewma, data[j].centerLine)
       IN  allAbove \/ allBelow

\* rule 2: index >= 8 and the last 9 points all above or all below centerLine
Rule2(data, index) ==
    /\ index >= 8
    /\ LET last9 == (index - 7)..(index + 1)
           allAbove == \A j \in last9 : RGt(data[j].ewma, data[j].centerLine)
           allBelow == \A j \in last9 : RLt(data[j].ewma, data[j].centerLine)
       IN  allAbove \/ allBelow

\* (mutant) rule 3 with equal neighbours counted as a step
Rule3_NonStrict(data, index) ==
    /\ index >= 5
    /\ LET rest == (index - 3)..(index + 1)
           increasing == \A j \in rest : RGe(data[j].ewma, data[j - 1].ewma)
           decreasing == \A j \in rest : RLe(data[j].ewma, data[j - 1].ewma)
       IN  increasing \/ decreasing

\* rule 3: index >= 5 and the last 6 points strictly increasing or decreasing
Rule3(data, index) ==
    /\ index >= 5
    /\ LET rest == (index - 3)..(index + 1)
           increasing == \A j \in rest : RGt(data[j].ewma, data[j - 1].ewma)
           decreasing == \A j \in rest : RLt(data[j].ewma, data[j - 1].ewma)
       IN  increasing \/ decreasing

\* (mutant) rule 5 with 1 of the last 3 points enough
Rule5_OneOfThree(data, index, params) ==
    /\ index >= 2
    /\ LET point == data[index + 1]
           sigma2Upper == RAdd(point.centerLine, RMul(Two, params.sigma))
           sigma2Lower == RSub(point.centerLine, RMul(Two, params.sigma))
           in2Sigma == {j \in (index - 1)..(index + 1) :
                          \/ (RGt(data[j].ewma, sigma2Upper)
                              /\ RLtSurd(data[j].ewma, data[j].ucl))
                          \/ (RLt(data[j].ewma, sigma2Lower)
                              /\ RGtSurd(data[j].ewma, data[j].lcl))}
       IN  Cardinality(in2Sigma) >= 1

\* rule 5: index >= 2 and at least 2 of the last 3 points between the
\* 2-sigma line of the current point and their own control limit
Rule5(data, index, params) ==
    /\ index >= 2
    /\ LET point == data[index + 1]
           sigma2Upper == RAdd(point.centerLine, RMul(Two, params.sigma))
           sigma2Lower == RSub(point.centerLine, RMul(Two, params.sigma))
           in2Sigma == {j \in (index - 1)..(index + 1) :
                          \/ (RGt(data[j].ewma, sigma2Upper)
                              /\ RLtSurd(data[j].ewma, data[j].ucl))
                          \/ (RLt(data[j].ewma, sigma2Lower)
                              /\ RGtSurd(data[j].ewma, data[j].lcl))}
       IN  Cardinality(in2Sigma) >= 2

\* the violations pushed, in the order of the code
checkControlRules(data, index, params) ==
    (IF Rule1(data[index + 1]) THEN <<"rule1">> ELSE << >>)
    \o (IF Rule2(data, index) THEN <<"rule2">> ELSE << >>)
    \o (IF Rule3(data, index) THEN <<"rule3">> ELSE << >>)
    \o (IF Rule5(data, index, params) THEN <<"rule5">> ELSE << >>)

\* the mean of the slopes of the last 3 points against 0.1 * sigma
calculateTrend(data, index, params) ==
    IF index < 2 THEN "stable"
    ELSE LET s1 == RSub(data[index].ewma, data[index - 1].ewma)
             s2 == RSub(data[index + 1].ewma, data[index].ewma)
             avgSlope == RDiv(RAdd(s1, s2), Two)
             tenth == RMul(params.sigma, Rat(1, 10))
         IN  IF RGt(avgSlope, tenth) THEN "increasing"
             ELSE IF RLt(avgSlope, RNeg(tenth)) THEN "decreasing"
             ELSE "stable"

\* Math.abs(ewma - target) / sigma, with the double's x/0
calculateSigmaLevel(ewma, target, sigma) ==
    LET a == RAbs(RSub(ewma, target))
    IN  IF sigma[1] # 0 THEN RDiv(a, sigma)
        ELSE IF a[1] = 0 THEN "NaN" ELSE "Infinity"

\* (mutant) the first point seeded with its own value
ChartFirstEwma_FirstValue(params, value) == value

\* ewma of the first point: lambda * rawData[0] + (1 - lambda) * target
ChartFirstEwma(params, value) ==
    RAdd(RMul(params.lambda, value),
         RMul(RSub(One, params.lambda), params.target))

\* ewma of a later point: lambda * rawData[i] + (1 - lambda) * data[i-1].ewma
ChartNextEwma(params, value, prevEwma) ==
    RAdd(RMul(params.lambda, value), RMul(RSub(One, params.lambda), prevEwma))

\* (mutant) the exponent 2 * i instead of 2 * (i + 1)
ChartVariance_FromZero(params, i) ==
    RMul(RDiv(params.lambda, RSub(Two, params.lambda)),
         RSub(One, RPow(RSub(One, params.lambda), 2 * i)))

\* (mutant) the decay raised to the power i + 1, not 2 * (i + 1)
ChartVariance_SingleExponent(params, i) ==
    RMul(RDiv(params.lambda, RSub(Two, params.lambda)),
         RSub(One, RPow(RSub(One, params.lambda), i + 1)))

\* (lambda / (2 - lambda)) * (1 - Math.pow(1 - lambda, 2 * (i + 1)))
ChartVariance(params, i) ==
    RMul(RDiv(params.lambda, RSub(Two, params.lambda)),
         RSub(One, RPow(RSub(One, params.lambda), 2 * (i + 1))))

\* one iteration of the first loop: the point pushed at index i = data.length
EWMAChartPoint(data, raw, params) ==
    LET i == Len(data)
        ewma == IF i = 0
                THEN ChartFirstEwma(params, raw[i + 1])
                ELSE ChartNextEwma(params, raw[i + 1], data[i].ewma)
        variance == ChartVariance(params, i)
        coef == RMul(params.L, params.sigma)
        ucl == Surd(params.target, coef, variance)
        lcl == Surd(params.target, RNeg(coef), variance)
    IN  [index |-> i + 1,
         value |-> raw[i + 1],
         ewma |-> ewma,
         ucl |-> ucl,
         lcl |-> lcl,
         centerLine |-> params.target,
         isOutOfControl |-> RGtSurd(ewma, ucl) \/ RLtSurd(ewma, lcl),
         violationRules |-> << >>,
         sigmaLevel |-> calculateSigmaLevel(ewma, params.target, params.sigma),
         trend |-> "stable"]

\* the first loop, from the points pushed so far to the end of rawData
RECURSIVE EWMAChartLoop(_, _, _)
EWMAChartLoop(data, raw, params) ==
    IF Len(data) = Len(raw) THEN data
    ELSE EWMAChartLoop(Append(data, EWMAChartPoint(data, raw, params)),
                       raw, params)

\* the first loop, then the second pass that fills violationRules and trend
EWMAChart_chartData(raw, params) ==
    IF Len(raw) = 0 THEN << >>
    ELSE LET data == EWMAChartLoop(<< >>, raw, params)
         IN  [j \in 1..Len(data) |->
                 [data[j] EXCEPT
                     !.violationRules = checkControlRules(data, j - 1, params),
                     !.trend = calculateTrend(data, j - 1, params)]]

---------------------------------------------------------------------------
(* calculateEWMA (src/src/App.tsx, lines 379-415).                         *)

\* index === 0: ewma = point.value
CalcFirstEwma(value, target) == value

\* ewma = lambda * point.value + (1 - lambda) * ewma
CalcNextEwma(lambda, value, ewma) ==
    RAdd(RMul(lambda, value), RMul(RSub(One, lambda), ewma))

\* one call of the forEach callback, at index = results.length
CalcEWMAPoint(results, data, lambda, target, ucl, lcl) ==
    LET index == Len(results)
        ewma == IF index = 0
                THEN CalcFirstEwma(data[index + 1], target)
                ELSE CalcNextEwma(lambda, data[index + 1], results[index].ewma)
    IN  [value |-> data[index + 1],
         ewma |-> ewma,
         ucl |-> ucl,
         lcl |-> lcl,
         isOutOfControl |-> RGtSurd(ewma, ucl) \/ RLtSurd(ewma, lcl)]

\* data.forEach, from the results pushed so far to the end of data
RECURSIVE CalcEWMALoop(_, _, _, _, _, _)
CalcEWMALoop(results, data, lambda, target, ucl, lcl) ==
    IF Len(results) = Len(data) THEN results
    ELSE CalcEWMALoop(Append(results,
                             CalcEWMAPoint(results, data, lambda, target,
                                           ucl, lcl)),
                      data, lambda, target, ucl, lcl)

\* (mutant) no data answered with the seed point z_0 = target
calculateEWMA_SeedPoint(data, lambda, target, sigma, L) ==
    LET rad == RDiv(lambda, RSub(Two, lambda))
        ucl == Surd(target, RMul(L, sigma), rad)
        lcl == Surd(target, RNeg(RMul(L, sigma)), rad)
    IN  IF Len(data) = 0
        THEN <<[value |-> target, ewma |-> target, ucl |-> ucl, lcl |-> lcl,
                isOutOfControl |-> FALSE]>>
        ELSE CalcEWMALoop(<< >>, data, lambda, target, ucl, lcl)

\* sigmaEWMA = sigma * sqrt(lambda / (2 - lambda)); ucl, lcl = target +/- L * sigmaEWMA
calculateEWMA(data, lambda, target, sigma, L) ==
    IF Len(data) = 0 THEN << >>
    ELSE LET rad == RDiv(lambda, RSub(Two, lambda))
             ucl == Surd(target, RMul(L, sigma), rad)
             lcl == Surd(target, RNeg(RMul(L, sigma)), rad)
         IN  CalcEWMALoop(<< >>, data, lambda, target, ucl, lcl)

---------------------------------------------------------------------------
(* calculateStatistics and calculateProcessCapability (src/src/App.tsx,    *)
(* lines 336-374 and 636-679).  values holds finite numbers.  A result is  *)
(* a record whose field threw is "none" when the call returned and names   *)
(* the error when it threw (then the record has no other field).           *)
(* Math.sqrt(x) is kept as the pair [q, rad] standing for q * sqrt(rad),   *)
(* rad > 0: sqrt(0) is [0, 1], sqrt(x) is [1, x] for x > 0 (a perfect      *)
(* square is not reduced), sqrt(NaN) is [NaN, 1].                          *)

\* sorted with x put after the elements <= x
InsertSorted(sorted, x) ==
    LET k == Cardinality({i \in 1..Len(sorted) : RLe(sorted[i], x)})
    IN  SubSeq(sorted, 1, k) \o <<x>> \o SubSeq(sorted, k + 1, Len(sorted))

\* [...values].sort((a, b) => a - b)
RECURSIVE SortAsc(_)
SortAsc(values) ==
    IF Len(values) = 0 THEN << >>
    ELSE InsertSorted(SortAsc(SubSeq(values, 1, Len(values) - 1)),
                      values[Len(values)])

\* values.reduce((acc, val) => acc + val, 0)
RECURSIVE SumOf(_)
SumOf(values) ==
    IF Len(values) = 0 THEN Zero
    ELSE RAdd(SumOf(SubSeq(values, 1, Len(values) - 1)), values[Len(values)])

\* values.reduce((acc, val) => acc + Math.pow(val - mean, 2), 0)
SumOfSquares(values, mean) ==
    SumOf([i \in 1..Len(values) |->
              RMul(RSub(values[i], mean), RSub(values[i], mean))])

\* Math.sqrt(x) for x >= 0 or NaN
XSqrt(x) ==
    IF IsNaN(x) THEN [q |-> NaN, rad |-> One]
    ELSE IF x[1] = 0 THEN [q |-> Zero, rad |-> One]
    ELSE IF IsFinite(x) THEN [q |-> One, rad |-> x]
    ELSE [q |-> Infinity, rad |-> One]

\* c * s for a number c and a square root s
MulRoot(c, s) == [q |-> XMul(c, s.q), rad |-> s.rad]

\* x / s for a number x and a square root s:
\* x / (q * sqrt(rad)) = (x / (q * rad)) * sqrt(rad) when q is finite, not 0
DivByRoot(x, s) ==
    IF IsFinite(s.q) /\ s.q[1] # 0
    THEN [q |-> XDiv(x, RMul(s.q, s.rad)), rad |-> s.rad]
    ELSE [q |-> XDiv(x, s.q), rad |-> One]

\* Math.min(a, b) of two multiples of the same square root
MinRoot(a, b) ==
    IF IsNaN(a.q) \/ IsNaN(b.q) THEN [q |-> NaN, rad |-> One]
    ELSE IF XLt(b.q, a.q) THEN b ELSE a

\* variance = (sum of squared deviations) / (n - 1): 0 / 0 for n = 1
Variance(sumSq, n) == XDiv(sumSq, RInt(n - 1))

\* sortedValues[Math.floor(n * 0.25)], 0-based in the code
Quartile1(sortedValues, n) == sortedValues[(n \div 4) + 1]

\* sortedValues[Math.floor(n * 0.75)]
Quartile3(sortedValues, n) == sortedValues[((3 * n) \div 4) + 1]

\* the mean of the two middle values for an even n, the middle value else
Median(sortedValues, n) ==
    LET medianIndex == n \div 2
    IN  IF n % 2 = 0
        THEN RDiv(RAdd(sortedValues[medianIndex], sortedValues[medianIndex + 1]),
                  Two)
        ELSE sortedValues[medianIndex + 1]

\* throw new Error('数据为空') for no value, the statistics else
calculateStatistics(values) ==
    IF Len(values) = 0 THEN [threw |-> "Error"]
    ELSE LET sortedValues == SortAsc(values)
             n == Len(values)
             mean == RDiv(SumOf(values), RInt(n))
             variance == Variance(SumOfSquares(values, mean), n)
             q1 == Quartile1(sortedValues, n)
             q3 == Quartile3(sortedValues, n)
         IN  [threw |-> "none",
              mean |-> mean,
              stdDev |-> XSqrt(variance),
              variance |-> variance,
              min |-> sortedValues[1],
              max |-> sortedValues[n],
              range |-> RSub(sortedValues[n], sortedValues[1]),
              count |-> n,
              median |-> Median(sortedValues, n),
              q1 |-> q1,
              q3 |-> q3,
              iqr |-> RSub(q3, q1)]

\* the indices computed from the statistics; target is << >> when the
\* argument is left out, <<t>> else, and so is cpm
CapabilityOf(stats, lsl, usl, target) ==
    LET mean == stats.mean
        stdDev == stats.stdDev
        cp == DivByRoot(RSub(usl, lsl), MulRoot(RInt(6), stdDev))
        cpkUpper == DivByRoot(RSub(usl, mean), MulRoot(RInt(3), stdDev))
        cpkLower == DivByRoot(RSub(mean, lsl), MulRoot(RInt(3), stdDev))
        msd == XAdd(stats.variance,
                    RMul(RSub(mean, target[1]), RSub(mean, target[1])))
        longTermStdDev == MulRoot(Rat(3, 2), stdDev)
        ppkUpper == DivByRoot(RSub(usl, mean), MulRoot(RInt(3), longTermStdDev))
        ppkLower == DivByRoot(RSub(mean, lsl), MulRoot(RInt(3), longTermStdDev))
    IN  [threw |-> "none",
         cp |-> cp,
         cpk |-> MinRoot(cpkUpper, cpkLower),
         cpm |-> IF Len(target) = 0 THEN << >>
                 ELSE <<DivByRoot(RSub(usl, lsl),
                                  MulRoot(RInt(6), XSqrt(msd)))>>,
         pp |-> DivByRoot(RSub(usl, lsl), MulRoot(RInt(6), longTermStdDev)),
         ppk |-> MinRoot(ppkUpper, ppkLower),
         mean |-> mean,
         stdDev |-> stdDev,
         processSpread |-> MulRoot(RInt(6), stdDev),
         specSpread |-> RSub(usl, lsl)]

\* const stats = calculateStatistics(values) throws for no value; there is
\* no check of lsl against usl
calculateProcessCapability(values, lsl, usl, target) ==
    LET stats == calculateStatistics(values)
    IN  IF stats.threw # "none" THEN [threw |-> stats.threw]
        ELSE CapabilityOf(stats, lsl, usl, target)

---------------------------------------------------------------------------
(* detectOutliersIQR and detectOutliersModifiedZScore (src/src/App.tsx,    *)
(* lines 475-495 and 519-538).                                             *)

\* (mutant) a value on a bound counted as an outlier
IQRIsOutlier_NonStrict(value, lowerBound, upperBound) ==
    RLe(value, lowerBound) \/ RGe(value, upperBound)

\* isOutlier = value < lowerBound || value > upperBound
IQRIsOutlier(value, lowerBound, upperBound) ==
    RLt(value, lowerBound) \/ RGt(value, upperBound)

\* one result per value, in the order of values
detectOutliersIQR(values, multiplier) ==
    LET stats == calculateStatistics(values)
    IN  IF stats.threw # "none" THEN [threw |-> stats.threw]
        ELSE LET threshold == RMul(multiplier, stats.iqr)
                 lowerBound == RSub(stats.q1, threshold)
                 upperBound == RAdd(stats.q3, threshold)
             IN  [threw |-> "none",
                  results |->
                    [j \in 1..Len(values) |->
                       [isOutlier |-> IQRIsOutlier(values[j], lowerBound,
                                                   upperBound),
                        method |-> "iqr",
                        score |-> RMin(RAbs(RSub(values[j], lowerBound)),
                                       RAbs(RSub(values[j], upperBound))),
                        threshold |-> threshold]]]

\* score = 0.6745 * (value - median) / mad, with no test of mad
ModifiedZScore(value, median, mad) ==
    XDiv(RMul(Rat(6745, 10000), RSub(value, median)), mad)

\* isOutlier = Math.abs(score) > threshold
detectOutliersModifiedZScore(values, threshold) ==
    LET stats == calculateStatistics(values)
    IN  IF stats.threw # "none" THEN [threw |-> stats.threw]
        ELSE LET median == stats.median
                 deviations == [j \in 1..Len(values) |->
                                   RAbs(RSub(values[j], median))]
                 mad == calculateStatistics(deviations).median
             IN  [threw |-> "none",
                  mad |-> mad,
                  results |->
                    [j \in 1..Len(values) |->
                       LET score == ModifiedZScore(values[j], median, mad)
                       IN  [isOutlier |-> XGt(XAbs(score), threshold),
                            method |-> "modified_zscore",
                            score |-> XAbs(score),
                            threshold |-> threshold]]]

---------------------------------------------------------------------------
(* interpolateData and smoothData (src/src/App.tsx, lines 582-612 and      *)
(* 617-631).  A data point is modelled by its value, an array of points by *)
(* the sequence of the values its point objects hold.  [...data] copies    *)
(* the array, not the points: result[i] and data[i] are the same object,   *)
(* so the assignment result[i].value = ... also changes data[i].value.     *)

\* the last prevIndex < i with a value that is not NaN, -1 if none
\* (0-based; the value at 0-based k is result[k + 1])
RECURSIVE ScanPrev(_, _)
ScanPrev(result, prevIndex) ==
    IF prevIndex >= 0 /\ IsNaN(result[prevIndex + 1])
    THEN ScanPrev(result, prevIndex - 1)
    ELSE prevIndex

\* the first nextIndex > i with a value that is not NaN, result.length if none
RECURSIVE ScanNext(_, _)
ScanNext(result, nextIndex) ==
    IF nextIndex < Len(result) /\ IsNaN(result[nextIndex + 1])
    THEN ScanNext(result, nextIndex + 1)
    ELSE nextIndex

\* prevValue + ratio * (nextValue - prevValue)
Interpolate(prevValue, nextValue, ratio) ==
    XAdd(prevValue, XMul(ratio, XSub(nextValue, prevValue)))

\* (mutant) a NaN with a neighbour on one side only takes that neighbour's
\* value
InterpolateStep_FillOneSided(result, i) ==
    IF ~IsNaN(result[i + 1]) THEN result
    ELSE LET prevIndex == ScanPrev(result, i - 1)
             nextIndex == ScanNext(result, i + 1)
         IN  IF prevIndex >= 0 /\ nextIndex < Len(result)
             THEN [result EXCEPT ![i + 1] =
                      Interpolate(result[prevIndex + 1], result[nextIndex + 1],
                                  Rat(i - prevIndex, nextIndex - prevIndex))]
             ELSE IF prevIndex >= 0
             THEN [result EXCEPT ![i + 1] = result[prevIndex + 1]]
             ELSE IF nextIndex < Len(result)
             THEN [result EXCEPT ![i + 1] = result[nextIndex + 1]]
             ELSE result

\* one iteration of the for loop at 0-based i, on the values held so far
InterpolateStep(result, i) ==
    IF ~IsNaN(result[i + 1]) THEN result
    ELSE LET prevIndex == ScanPrev(result, i - 1)
             nextIndex == ScanNext(result, i + 1)
         IN  IF prevIndex >= 0 /\ nextIndex < Len(result)
             THEN [result EXCEPT ![i + 1] =
                      Interpolate(result[prevIndex + 1], result[nextIndex + 1],
                                  Rat(i - prevIndex, nextIndex - prevIndex))]
             ELSE result

\* for (let i = 1; i < result.length - 1; i++), from i on
RECURSIVE InterpolateLoop(_, _)
InterpolateLoop(result, i) ==
    IF i < Len(result) - 1
    THEN InterpolateLoop(InterpolateStep(result, i), i + 1)
    ELSE result

\* the values of the returned points (data itself for fewer than 2 points)
interpolateData(data) ==
    IF Len(data) < 2 THEN data ELSE InterpolateLoop(data, 1)

\* start = Math.max(0, index - Math.floor(windowSize / 2)), 0-based
WindowStart(index, size) ==
    IF index - (size \div 2) > 0 THEN index - (size \div 2) ELSE 0

\* end = Math.min(data.length, start + windowSize), exclusive
WindowEnd(start, size, length) ==
    IF start + size < length THEN start + size ELSE length

\* window.reduce((sum, p) => sum + p.value, 0), from the left
RECURSIVE XSumOf(_)
XSumOf(window) ==
    IF Len(window) = 0 THEN Zero
    ELSE XAdd(XSumOf(SubSeq(window, 1, Len(window) - 1)), window[Len(window)])

\* the values of the returned points: data itself when windowSize <= 1 or
\* data is shorter than the window, new points with the window means else
smoothData(data, size) ==
    IF size <= 1 \/ Len(data) < size THEN data
    ELSE [j \in 1..Len(data) |->
            LET start == WindowStart(j - 1, size)
                end == WindowEnd(start, size, Len(data))
                window == SubSeq(data, start + 1, end)
            IN  XDiv(XSumOf(window), RInt(Len(window)))]

---------------------------------------------------------------------------
(* IEEE 754 binary64 arithmetic on non-negative numbers, the Number type   *)
(* of the arithmetic in the EWMA recurrences.  A significand is a natural  *)
(* number kept as a sequence of limbs of LimbBits bits, least significant  *)
(* first, without leading zero limbs; a Number is [m, e] with value        *)
(* m * 2^e, where m is 0 (and e = 0) or has exactly SignificandBits bits.  *)
(* Every operation rounds its exact result to nearest, ties to even.       *)
(* Subnormal numbers, overflow and signs are outside the inputs used.      *)

SignificandBits == 53
LimbBits == 12
LimbBase == 2^LimbBits

\* x without its leading zero limbs
RECURSIVE BigTrim(_)
BigTrim(x) ==
    IF Len(x) > 0 /\ x[Len(x)] = 0 THEN BigTrim(SubSeq(x, 1, Len(x) - 1)) ELSE x

\* the limbs of a natural number n
RECURSIVE BigOfInt(_)
BigOfInt(n) ==
    IF n = 0 THEN << >> ELSE <<n % LimbBase>> \o BigOfInt(n \div LimbBase)

\* x + y + carry
RECURSIVE BigAddCarry(_, _, _)
BigAddCarry(x, y, carry) ==
    IF Len(x) = 0 /\ Len(y) = 0
    THEN IF carry = 0 THEN << >> ELSE <<carry>>
    ELSE LET a == IF Len(x) > 0 THEN x[1] ELSE 0
             b == IF Len(y) > 0 THEN y[1] ELSE 0
             t == a + b + carry
         IN  <<t % LimbBase>>
               \o BigAddCarry(IF Len(x) > 0 THEN Tail(x) ELSE << >>,
                              IF Len(y) > 0 THEN Tail(y) ELSE << >>,
                              t \div LimbBase)

BigAdd(x, y) == BigAddCarry(x, y, 0)

\* x - y - borrow, for x >= y + borrow
RECURSIVE BigSubBorrow(_, _, _)
BigSubBorrow(x, y, borrow) ==
    IF Len(x) = 0 THEN << >>
    ELSE LET b == IF Len(y) > 0 THEN y[1] ELSE 0
             t == x[1] - b - borrow
         IN  <<IF t < 0 THEN t + LimbBase ELSE t>>
               \o BigSubBorrow(Tail(x), IF Len(y) > 0 THEN Tail(y) ELSE << >>,
                               IF t < 0 THEN 1 ELSE 0)

BigSub(x, y) == BigTrim(BigSubBorrow(x, y, 0))

\* x * c + carry for one limb c
RECURSIVE BigMulLimb(_, _, _)
BigMulLimb(x, c, carry) ==
    IF Len(x) = 0
    THEN IF carry = 0 THEN << >> ELSE <<carry>>
    ELSE LET t == x[1] * c + carry
         IN  <<t % LimbBase>> \o BigMulLimb(Tail(x), c, t \div LimbBase)

\* x * y
RECURSIVE BigMul(_, _)
BigMul(x, y) ==
    IF Len(y) = 0 \/ Len(x) = 0 THEN << >>
    ELSE BigTrim(BigAdd(BigMulLimb(x, y[1], 0), <<0>> \o BigMul(x, Tail(y))))

\* x * 2^k
BigShl(x, k) ==
    IF Len(x) = 0 THEN << >>
    ELSE [i \in 1..(k \div LimbBits) |-> 0]
           \o BigMulLimb(x, 2^(k % LimbBits), 0)

\* floor(x / 2^k)
BigShr(x, k) ==
    LET r == k % LimbBits
        y == SubSeq(x, (k \div LimbBits) + 1, Len(x))
    IN  BigTrim([i \in 1..Len(y) |->
                    (y[i] \div 2^r)
                      + ((IF i < Len(y) THEN y[i + 1] ELSE 0) % 2^r)
                          * 2^(LimbBits - r)])

\* the number of bits of a limb and of x
RECURSIVE LimbBitLen(_)
LimbBitLen(n) == IF n = 0 THEN 0 ELSE 1 + LimbBitLen(n \div 2)

BigBitLen(x) ==
    IF Len(x) = 0 THEN 0 ELSE LimbBits * (Len(x) - 1) + LimbBitLen(x[Len(x)])

\* bit k of x, bit 0 the least significant
BigBit(x, k) ==
    IF (k \div LimbBits) + 1 > Len(x) THEN 0
    ELSE (x[(k \div LimbBits) + 1] \div 2^(k % LimbBits)) % 2

\* x < y
RECURSIVE BigLt(_, _)
BigLt(x, y) ==
    IF Len(x) # Len(y) THEN Len(x) < Len(y)
    ELSE IF Len(x) = 0 THEN FALSE
    ELSE IF x[Len(x)] # y[Len(y)] THEN x[Len(x)] < y[Len(y)]
    ELSE BigLt(BigTrim(SubSeq(x, 1, Len(x) - 1)),
               BigTrim(SubSeq(y, 1, Len(y) - 1)))

\* the quotient and the remainder of x by a small d, limbs taken from the
\* most significant one with the running remainder rem
RECURSIVE BigDivSmall(_, _, _)
BigDivSmall(x, d, rem) ==
    IF Len(x) = 0 THEN [q |-> << >>, r |-> rem]
    ELSE LET t == rem * LimbBase + x[Len(x)]
             rest == BigDivSmall(SubSeq(x, 1, Len(x) - 1), d, t % d)
         IN  [q |-> rest.q \o <<t \div d>>, r |-> rest.r]

F64Zero == [m |-> << >>, e |-> 0]

\* the Number nearest to m * 2^e (plus a non-zero amount below the last bit
\* of m when sticky), ties to even
F64Round(m, e, sticky) ==
    LET len == BigBitLen(m)
        k == len - SignificandBits
    IN  IF len = 0 THEN F64Zero
        ELSE IF k <= 0 THEN [m |-> BigShl(m, -k), e |-> e + k]
        ELSE LET q == BigShr(m, k)
                 half == BigBit(m, k - 1) = 1
                 below == sticky \/ BigShl(BigShr(m, k - 1), k - 1) # m
                 up == half /\ (below \/ BigBit(q, 0) = 1)
                 n == IF up THEN BigAdd(q, <<1>>) ELSE q
             IN  IF BigBitLen(n) > SignificandBits
                 THEN [m |-> BigShr(n, 1), e |-> e + k + 1]
                 ELSE [m |-> n, e |-> e + k]

\* the Number a decimal literal of value n / d denotes (parseFloat)
F64OfRat(x) ==
    LET division == BigDivSmall(BigShl(BigOfInt(x[1]), 72), x[2], 0)
    IN  F64Round(BigTrim(division.q), -72, division.r # 0)

\* the significands of a and b over the smaller of the two exponents
F64Aligned(a, b) ==
    LET e == IF a.e < b.e THEN a.e ELSE b.e
    IN  [a |-> BigShl(a.m, a.e - e), b |-> BigShl(b.m, b.e - e), e |-> e]

\* a * b, a + b and a - b (for a >= b), rounded
F64Mul(a, b) == F64Round(BigMul(a.m, b.m), a.e + b.e, FALSE)

F64Add(a, b) ==
    LET al == F64Aligned(a, b) IN F64Round(BigAdd(al.a, al.b), al.e, FALSE)

F64Sub(a, b) ==
    LET al == F64Aligned(a, b) IN F64Round(BigSub(al.a, al.b), al.e, FALSE)

\* a < b, a > b, a <= b
F64Lt(a, b) == LET al == F64Aligned(a, b) IN BigLt(al.a, al.b)
F64Gt(a, b) == F64Lt(b, a)
F64Le(a, b) == ~F64Lt(b, a)

---------------------------------------------------------------------------
(* The ewma column of the two EWMA passes and Rule 2 of checkControlRules  *)
(* in binary64 arithmetic (EWMAChart.tsx lines 245-252 and 177-185,        *)
(* App.tsx lines 396-402), for inputs that are not exact in a double.      *)

F64One == F64OfRat(One)

\* the Numbers a sequence of decimal values denotes
F64Values(raw) == [i \in 1..Len(raw) |-> F64OfRat(raw[i])]

\* lambda * value + (1 - lambda) * prev, each operation rounded
F64NextEwma(lambda, value, prev) ==
    F64Add(F64Mul(lambda, value), F64Mul(F64Sub(F64One, lambda), prev))

\* the first loop of chartData: ewma of the point pushed at index
\* i = data.length, from params.target at i = 0, from data[i - 1].ewma later
RECURSIVE EWMAChartLoop64(_, _, _, _)
EWMAChartLoop64(data, raw, lambda, target) ==
    IF Len(data) = Len(raw) THEN data
    ELSE LET i == Len(data)
             ewma == F64NextEwma(lambda, raw[i + 1],
                                 IF i = 0 THEN target ELSE data[i].ewma)
         IN  EWMAChartLoop64(
                 Append(data, [value |-> raw[i + 1], ewma |-> ewma,
                               centerLine |-> target]),
                 raw, lambda, target)

\* Rule 2 at 0-based index: the last 9 points all above or all below their
\* center line
Rule2_64(data, index) ==
    /\ index >= 8
    /\ \/ \A j \in (index - 7)..(index + 1) :
             F64Gt(data[j].ewma, data[j].centerLine)
       \/ \A j \in (index - 7)..(index + 1) :
             F64Lt(data[j].ewma, data[j].centerLine)

\* chartData: the points with their ewma and whether Rule 2 is reported
EWMAChart_chartData64(raw, lambda, target) ==
    LET data == EWMAChartLoop64(<< >>, raw, lambda, target)
    IN  [j \in 1..Len(data) |->
            [value |-> data[j].value,
             ewma |-> data[j].ewma,
             centerLine |-> data[j].centerLine,
             rule2 |-> Rule2_64(data, j - 1)]]

\* calculateEWMA: ewma is the value itself at index 0, the recurrence later
RECURSIVE CalcEWMALoop64(_, _, _)
CalcEWMALoop64(results, data, lambda) ==
    IF Len(results) = Len(data) THEN results
    ELSE LET index == Len(results)
             ewma == IF index = 0 THEN data[1]
                     ELSE F64NextEwma(lambda, data[index + 1],
                                      results[index].ewma)
         IN  CalcEWMALoop64(
                 Append(results, [value |-> data[index + 1], ewma |-> ewma]),
                 data, lambda)

calculateEWMA64(data, lambda) == CalcEWMALoop64(<< >>, data, lambda)

---------------------------------------------------------------------------
(* useAlarmStore (src/src/store/dataStore.ts, lines 274-345): the records  *)
(* and the stored activeAlarms list.  The rules of the store are left out: *)
(* no record operation reads or writes them.  new Date().toISOString() is  *)
(* the one time "now".                                                     *)

\* (mutant) every record that is not resolved counted as active
ActiveOf_NotResolved(list) == SelectSeq(list, LAMBDA r : r.status # "resolved")

\* list.filter(r => r.status === 'active')
ActiveOf(list) == SelectSeq(list, LAMBDA r : r.status = "active")

\* { ...record, status: 'acknowledged', acknowledgedBy, acknowledgedAt }
AcknowledgedRecord(record, acknowledgedBy) ==
    [record EXCEPT !.status = "acknowledged",
                   !.acknowledgedBy = acknowledgedBy,
                   !.acknowledgedAt = "now"]

\* { ...record, status: 'resolved', resolvedAt }
ResolvedRecord(record) ==
    [record EXCEPT !.status = "resolved", !.resolvedAt = "now"]

\* getActiveAlarms: () => get().records.filter(r => r.status === 'active')
getActiveAlarms == ActiveOf(records)

---------------------------------------------------------------------------
(* Variable selection on the chart pages (EWMAChart.tsx lines 71-144,      *)
(* part_000 lines 58-121).  The uploaded file is in the store and every    *)
(* variable has a columnIndex, so the pages load a variable's data with    *)
(* extractDataForVariable, whose promise resolves when the FileReader of   *)
(* that call has read the file: the reads of different calls finish in any *)
(* order.  The catch branches change no state and are left out.            *)

\* the data rows of the uploaded file, by column
FileColumns ==
    << <<RInt(99), RInt(101), RInt(103)>>,
       <<RInt(50), RInt(53)>>,
       <<RInt(20), RInt(20), RInt(23), RInt(25)>> >>

SelectableVariables == DOMAIN FileColumns

\* dataPoints.map(point => point.value) of extractDataForVariable(file, c)
ExtractedValues(columnIndex) == FileColumns[columnIndex]

\* values.reduce((sum, val) => sum + val, 0) / values.length
MeanOf(values) == RDiv(SumOf(values), RInt(Len(values)))

\* values.reduce((sum, val) => sum + Math.pow(val - mean, 2), 0) / length
VarianceOf(values) ==
    RDiv(SumOfSquares(values, MeanOf(values)), RInt(Len(values)))

\* Math.floor(Math.sqrt(m)) of a natural number
RECURSIVE ISqrt(_)
ISqrt(m) ==
    IF m < 2 THEN m
    ELSE LET s == 2 * ISqrt(m \div 4)
         IN  IF (s + 1) * (s + 1) <= m THEN s + 1 ELSE s

\* parseFloat(x.toFixed(2)): the nearest hundredth, a tie away from zero
toFixed2(x) ==
    LET a == IF x[1] < 0 THEN -x[1] ELSE x[1]
        n == (200 * a + x[2]) \div (2 * x[2])
    IN  Rat(IF x[1] < 0 THEN -n ELSE n, 100)

\* parseFloat(Math.sqrt(x).toFixed(2)) for x >= 0:
\* floor(100 * sqrt(x) + 1/2) = (floor(sqrt(40000 * x)) + 1) div 2
toFixed2OfSqrt(x) ==
    Rat((ISqrt((40000 * x[1]) \div x[2]) + 1) \div 2, 100)

\* EWMAChart setParams(prev => ({...prev, target, sigma}))
AutoEWMAParams(prev, values) ==
    [prev EXCEPT !.target = toFixed2(MeanOf(values)),
                 !.sigma = toFixed2OfSqrt(VarianceOf(values))]

\* CUSUMChart setParams(prev => ({...prev, target, sigma, k, h})) with
\* k from 0.5 * stdDev and h from 4 * stdDev
AutoCUSUMParams(prev, values) ==
    [prev EXCEPT !.target = toFixed2(MeanOf(values)),
                 !.sigma = toFixed2OfSqrt(VarianceOf(values)),
                 !.k = toFixed2OfSqrt(RDiv(VarianceOf(values), RInt(4))),
                 !.h = toFixed2OfSqrt(RMul(RInt(16), VarianceOf(values)))]

---------------------------------------------------------------------------
(* Inputs and the state machine.  The four passes are pure functions of    *)
(* (rawData, params); a specification draws the inputs in its initial      *)
(* state and applies each pass once.                                       *)

\* bounds of the CUSUM inputs: every sequence up to MaxLen, constant
\* sequences up to MaxRun
MaxLen == 3
MaxRun == 10

\* CUSUMChart useState defaults (part_000 lines 39-47): target 100
CusumTargets == {RInt(100)}
CusumValues == {RInt(70), RInt(100), RInt(105), RInt(130)}
CusumSigmas == {Zero, One, RInt(5)}
CusumKs == {RInt(-1), Zero, One, Rat(5, 2)}
CusumHs == {Zero, RInt(4), RInt(20)}

CusumInputs ==
    SeqsUpTo(CusumValues, MaxLen) \cup ConstSeqs(CusumValues, MaxLen + 1, MaxRun)

CusumParamSet ==
    [target : CusumTargets, sigma : CusumSigmas, k : CusumKs, h : CusumHs,
     fastInitialResponse : BOOLEAN]

\* EWMAChart useState defaults (EWMAChart.tsx lines 53-60)
DefaultEWMAParams ==
    [lambda |-> Rat(1, 5), target |-> RInt(100), sigma |-> RInt(5), L |-> RInt(3)]

\* CUSUMChart useState defaults (part_000 lines 39-47)
DefaultCUSUMParams ==
    [target |-> RInt(100), sigma |-> RInt(5), k |-> Rat(5, 2), h |-> RInt(20),
     fastInitialResponse |-> FALSE]

\* a result variable before its call
NotCalled == [threw |-> "none"]

\* calculateProcessCapability without a target, detectOutliersIQR with its
\* default multiplier = 1.5, detectOutliersModifiedZScore with its default
\* threshold = 3.5 (App.tsx lines 475, 519, 636-641)
DefaultStatParams ==
    [lsl |-> Zero, usl |-> RInt(10), target |-> << >>,
     multiplier |-> Rat(3, 2), threshold |-> Rat(7, 2)]

\* smoothData's default windowSize = 5 (App.tsx line 617)
DefaultWindowSize == 5

\* the statistics functions have not been called
StatIdle ==
    /\ statParams = DefaultStatParams
    /\ statistics = NotCalled
    /\ capability = NotCalled
    /\ iqrOutliers = NotCalled
    /\ mzOutliers = NotCalled

\* the preprocessing functions have not been called, on no data
PrepIdle ==
    /\ inputValues = << >>
    /\ dataPoints = << >>
    /\ windowSize = DefaultWindowSize
    /\ interpolated = << >>
    /\ smoothed = << >>

\* the binary64 passes have not run
Float64Idle ==
    /\ ewmaChart64 = << >>
    /\ ewmaResults64 = << >>

\* useAlarmStore as created: records: [], activeAlarms: []
AlarmIdle ==
    /\ records = << >>
    /\ activeAlarms = << >>

\* no chart page is mounted and no extraction is in flight
SelectIdle ==
    /\ page = "none"
    /\ selectedVariable = 0
    /\ pending = [c \in SelectableVariables |-> 0]
    /\ selections = 0

OtherIdle == Float64Idle /\ AlarmIdle /\ SelectIdle

\* analysisResults of a page whose chartData is the empty list
NoAnalysis == CUSUMChart_analysisResults(<< >>)

\* the chart pages hold their defaults and no pass has run
ChartIdle ==
    /\ cusumParams = DefaultCUSUMParams
    /\ ewmaParams = DefaultEWMAParams
    /\ cusumChart = << >>
    /\ analysisResults = NoAnalysis
    /\ cusumResults = << >>
    /\ ewmaChart = << >>
    /\ ewmaResults = << >>

InitCUSUM ==
    /\ rawData \in CusumInputs
    /\ cusumParams \in CusumParamSet
    /\ ewmaParams = DefaultEWMAParams
    /\ cusumChart = << >>
    /\ analysisResults = NoAnalysis
    /\ cusumResults = << >>
    /\ ewmaChart = << >>
    /\ ewmaResults = << >>
    /\ thrown = "none"
    /\ done = {}
    /\ OtherIdle
    /\ StatIdle
    /\ PrepIdle

\* CUSUMChart: the chartData memo is computed from rawData and params
RunCUSUMChart ==
    /\ "CUSUMChart" \notin done
    /\ cusumChart' = CUSUMChart_chartData(rawData, cusumParams)
    /\ analysisResults' = CUSUMChart_analysisResults(cusumChart')
    /\ done' = done \cup {"CUSUMChart"}
    /\ UNCHANGED <<rawData, cusumParams, ewmaParams, cusumResults, ewmaChart,
                   ewmaResults, thrown, statVars, prepVars, otherVars>>

\* a call calculateCUSUM(data, target, sigma, k, h) on the same inputs;
\* the function has no throw statement and no check of its arguments, so the
\* call returns for every input and nothing is thrown
CallCalculateCUSUM ==
    /\ "calculateCUSUM" \notin done
    /\ cusumResults' = calculateCUSUM(rawData, cusumParams.target,
                                      cusumParams.sigma, cusumParams.k,
                                      cusumParams.h)
    /\ done' = done \cup {"calculateCUSUM"}
    /\ UNCHANGED <<rawData, cusumParams, ewmaParams, cusumChart,
                   analysisResults, ewmaChart,
                   ewmaResults, thrown, statVars, prepVars, otherVars>>

NextCUSUM == RunCUSUMChart \/ CallCalculateCUSUM

SpecCUSUM == InitCUSUM /\ [][NextCUSUM]_vars

\* bounds of the inputs of the run-length analysis: every sequence up to
\* MaxAnalysisLen over AnalysisValues, with reference values and decision
\* intervals that let a signal be followed by points in control
MaxAnalysisLen == 5

AnalysisValues == {RInt(70), RInt(100), RInt(130)}
AnalysisKs == {Rat(5, 2), RInt(10)}
AnalysisHs == {RInt(15), RInt(20)}

AnalysisParamSet ==
    [target : CusumTargets, sigma : {RInt(5)}, k : AnalysisKs, h : AnalysisHs,
     fastInitialResponse : BOOLEAN]

InitAnalysis ==
    /\ rawData \in SeqsUpTo(AnalysisValues, MaxAnalysisLen)
    /\ cusumParams \in AnalysisParamSet
    /\ ewmaParams = DefaultEWMAParams
    /\ cusumChart = << >>
    /\ analysisResults = NoAnalysis
    /\ cusumResults = << >>
    /\ ewmaChart = << >>
    /\ ewmaResults = << >>
    /\ thrown = "none"
    /\ done = {}
    /\ OtherIdle
    /\ StatIdle
    /\ PrepIdle

NextAnalysis == RunCUSUMChart \/ CallCalculateCUSUM

SpecAnalysis == InitAnalysis /\ [][NextAnalysis]_vars

\* bounds of the EWMA inputs: every sequence up to MaxEwmaLen over
\* EwmaValues, and the sequences up to MaxRuleLen over RuleValues that
\* change value at most MaxChanges times (long enough for rules 2 and 3)
MaxEwmaLen == 3
MaxRuleLen == 9
MaxChanges == 2

EwmaTargets == {RInt(100)}
EwmaValues == {RInt(94), RInt(100), RInt(105), RInt(106), RInt(108)}
EwmaLambdas == {Zero, Rat(1, 4), Rat(1, 2), One, Rat(3, 2)}
EwmaSigmas == {Zero, Two}
EwmaLs == {RInt(3)}

RuleValues == {RInt(96), RInt(100), RInt(104)}
RuleLambdas == {Rat(1, 2), One}

Changes(seq) == Cardinality({i \in 1..(Len(seq) - 1) : seq[i] # seq[i + 1]})

EwmaInputs == SeqsUpTo(EwmaValues, MaxEwmaLen)
RuleInputs == {seq \in SeqsUpTo(RuleValues, MaxRuleLen) : Changes(seq) <= MaxChanges}

EwmaParamSet ==
    [lambda : EwmaLambdas, target : EwmaTargets, sigma : EwmaSigmas, L : EwmaLs]
RuleParamSet ==
    [lambda : RuleLambdas, target : EwmaTargets, sigma : {Two}, L : EwmaLs]

InitEWMA ==
    /\ \/ (rawData \in EwmaInputs /\ ewmaParams \in EwmaParamSet)
       \/ (rawData \in RuleInputs /\ ewmaParams \in RuleParamSet)
    /\ cusumParams = DefaultCUSUMParams
    /\ cusumChart = << >>
    /\ analysisResults = NoAnalysis
    /\ cusumResults = << >>
    /\ ewmaChart = << >>
    /\ ewmaResults = << >>
    /\ thrown = "none"
    /\ done = {}
    /\ OtherIdle
    /\ StatIdle
    /\ PrepIdle

\* EWMAChart: the chartData memo is computed from rawData and params
RunEWMAChart ==
    /\ "EWMAChart" \notin done
    /\ ewmaChart' = EWMAChart_chartData(rawData, ewmaParams)
    /\ done' = done \cup {"EWMAChart"}
    /\ UNCHANGED <<rawData, cusumParams, ewmaParams, cusumChart,
                   analysisResults, cusumResults,
                   ewmaResults, thrown, statVars, prepVars, otherVars>>

\* a call calculateEWMA(data, lambda, target, sigma, L) on the same inputs;
\* the function has no throw statement and no check of its arguments, so the
\* call returns for every input and nothing is thrown
CallCalculateEWMA ==
    /\ "calculateEWMA" \notin done
    /\ ewmaResults' = calculateEWMA(rawData, ewmaParams.lambda,
                                    ewmaParams.target, ewmaParams.sigma,
                                    ewmaParams.L)
    /\ done' = done \cup {"calculateEWMA"}
    /\ UNCHANGED <<rawData, cusumParams, ewmaParams, cusumChart,
                   analysisResults, cusumResults,
                   ewmaChart, thrown, statVars, prepVars, otherVars>>

NextEWMA == RunEWMAChart \/ CallCalculateEWMA

SpecEWMA == InitEWMA /\ [][NextEWMA]_vars

\* bounds of the inputs of the chart passes on short data: every sequence
\* up to MaxShortLen, with every configuration of both parameter sets
MaxShortLen == 1

ShortValues == {RInt(100), RInt(108)}

InitCharts ==
    /\ rawData \in SeqsUpTo(ShortValues, MaxShortLen)
    /\ cusumParams \in CusumParamSet
    /\ ewmaParams \in EwmaParamSet
    /\ cusumChart = << >>
    /\ analysisResults = NoAnalysis
    /\ cusumResults = << >>
    /\ ewmaChart = << >>
    /\ ewmaResults = << >>
    /\ thrown = "none"
    /\ done = {}
    /\ OtherIdle
    /\ StatIdle
    /\ PrepIdle

\* the four chart passes on the same data
NextCharts ==
    RunCUSUMChart \/ CallCalculateCUSUM \/ RunEWMAChart \/ CallCalculateEWMA

SpecCharts == InitCharts /\ [][NextCharts]_vars

\* bounds of the inputs of the statistics functions: every sequence up to
\* MaxStatLen over StatValues, the constant sequences up to MaxStatRun and
\* the sequence of the IQR example
MaxStatLen == 3
MaxStatRun == 5

StatValues == {RInt(5), RInt(9), RInt(10), RInt(11), RInt(1000)}
IQRExample == <<RInt(10), RInt(11), RInt(9), RInt(10), RInt(11), RInt(1000)>>

StatInputs ==
    SeqsUpTo(StatValues, MaxStatLen)
      \cup ConstSeqs(StatValues, MaxStatLen + 1, MaxStatRun)
      \cup {IQRExample}

\* <<lsl, usl>>: usl > lsl, usl = lsl and usl < lsl
SpecLimits ==
    {<<Zero, RInt(10)>>, <<RInt(5), RInt(10)>>, <<RInt(5), RInt(5)>>,
     <<RInt(10), RInt(5)>>}
CapabilityTargets == {<< >>, <<RInt(10)>>}
Multipliers == {Rat(3, 2), RInt(3)}

InitStats ==
    /\ rawData \in StatInputs
    /\ ChartIdle
    /\ thrown = "none"
    /\ done = {}
    /\ OtherIdle
    /\ StatIdle
    /\ PrepIdle

\* a call calculateStatistics(values)
CallCalculateStatistics ==
    /\ "calculateStatistics" \notin done
    /\ statistics' = calculateStatistics(rawData)
    /\ thrown' = statistics'.threw
    /\ done' = done \cup {"calculateStatistics"}
    /\ UNCHANGED <<rawData, chartVars, statParams, capability, iqrOutliers,
                   mzOutliers, prepVars, otherVars>>

\* a call calculateProcessCapability(values, lsl, usl, target)
CallCalculateProcessCapability ==
    /\ "calculateProcessCapability" \notin done
    /\ \E limits \in SpecLimits, target \in CapabilityTargets :
         /\ statParams' = [statParams EXCEPT !.lsl = limits[1],
                                             !.usl = limits[2],
                                             !.target = target]
         /\ capability' = calculateProcessCapability(rawData, limits[1],
                                                     limits[2], target)
    /\ thrown' = capability'.threw
    /\ done' = done \cup {"calculateProcessCapability"}
    /\ UNCHANGED <<rawData, chartVars, statistics, iqrOutliers, mzOutliers,
                   prepVars, otherVars>>

\* a call detectOutliersIQR(values, multiplier)
CallDetectOutliersIQR ==
    /\ "detectOutliersIQR" \notin done
    /\ \E multiplier \in Multipliers :
         /\ statParams' = [statParams EXCEPT !.multiplier = multiplier]
         /\ iqrOutliers' = detectOutliersIQR(rawData, multiplier)
    /\ thrown' = iqrOutliers'.threw
    /\ done' = done \cup {"detectOutliersIQR"}
    /\ UNCHANGED <<rawData, chartVars, statistics, capability, mzOutliers,
                   prepVars, otherVars>>

\* a call detectOutliersModifiedZScore(values), with the default threshold
CallDetectOutliersModifiedZScore ==
    /\ "detectOutliersModifiedZScore" \notin done
    /\ mzOutliers' = detectOutliersModifiedZScore(rawData, statParams.threshold)
    /\ thrown' = mzOutliers'.threw
    /\ done' = done \cup {"detectOutliersModifiedZScore"}
    /\ UNCHANGED <<rawData, chartVars, statParams, statistics, capability,
                   iqrOutliers, prepVars, otherVars>>

NextStats ==
    \/ CallCalculateStatistics
    \/ CallCalculateProcessCapability
    \/ CallDetectOutliersIQR
    \/ CallDetectOutliersModifiedZScore

SpecStats == InitStats /\ [][NextStats]_vars

\* bounds of the inputs of the preprocessing functions: every sequence of
\* values up to MaxPrepLen over numbers, NaN and Infinity
MaxPrepLen == 5

PrepValues == {One, RInt(3), NaN, Infinity}
WindowSizes == {1, 3, 5}

InitPrep ==
    /\ inputValues \in SeqsUpTo(PrepValues, MaxPrepLen)
    /\ dataPoints = inputValues
    /\ windowSize \in WindowSizes
    /\ interpolated = << >>
    /\ smoothed = << >>
    /\ rawData = << >>
    /\ ChartIdle
    /\ thrown = "none"
    /\ done = {}
    /\ OtherIdle
    /\ StatIdle

\* a call interpolateData(data) on the caller's points: the returned array
\* holds the caller's point objects, whose values the loop has assigned
CallInterpolateData ==
    /\ "interpolateData" \notin done
    /\ interpolated' = interpolateData(dataPoints)
    /\ dataPoints' = interpolated'
    /\ done' = done \cup {"interpolateData"}
    /\ UNCHANGED <<rawData, chartVars, thrown, statVars, inputValues,
                   windowSize, smoothed, otherVars>>

\* a call smoothData(data, windowSize) on the caller's points: the returned
\* points are new objects (or data itself, untouched)
CallSmoothData ==
    /\ "smoothData" \notin done
    /\ smoothed' = smoothData(dataPoints, windowSize)
    /\ done' = done \cup {"smoothData"}
    /\ UNCHANGED <<rawData, chartVars, thrown, statVars, inputValues,
                   dataPoints, windowSize, interpolated, otherVars>>

NextPrep == CallInterpolateData \/ CallSmoothData

SpecPrep == InitPrep /\ [][NextPrep]_vars

\* bounds of the inputs of the binary64 passes: every sequence up to
\* MaxFloatLen over FloatValues and the constant sequences up to MaxFloatRun
\* (long enough for Rule 2), with decimal values, targets and smoothing
\* factors that are not exact in a double (0.2 is the default lambda)
MaxFloatLen == 2
MaxFloatRun == 9

FloatValues == {RInt(100), Rat(253, 10), Rat(9813, 100), Rat(11864, 100)}
FloatTargets == {RInt(100), Rat(253, 10)}
FloatLambdas == {Rat(1, 5), Rat(3, 10), Rat(7, 10)}

FloatInputs ==
    SeqsUpTo(FloatValues, MaxFloatLen)
      \cup ConstSeqs(FloatValues, MaxFloatLen + 1, MaxFloatRun)

InitFloat ==
    /\ rawData \in FloatInputs
    /\ ewmaParams \in [lambda : FloatLambdas, target : FloatTargets,
                        sigma : {RInt(5)}, L : {RInt(3)}]
    /\ cusumParams = DefaultCUSUMParams
    /\ cusumChart = << >>
    /\ analysisResults = NoAnalysis
    /\ cusumResults = << >>
    /\ ewmaChart = << >>
    /\ ewmaResults = << >>
    /\ thrown = "none"
    /\ done = {}
    /\ OtherIdle
    /\ StatIdle
    /\ PrepIdle

\* EWMAChart: the ewma column and Rule 2 of the chartData memo, computed in
\* binary64 from the Numbers rawData and params hold
RunEWMAChart64 ==
    /\ "EWMAChart64" \notin done
    /\ ewmaChart64' = EWMAChart_chartData64(F64Values(rawData),
                                            F64OfRat(ewmaParams.lambda),
                                            F64OfRat(ewmaParams.target))
    /\ done' = done \cup {"EWMAChart64"}
    /\ UNCHANGED <<rawData, chartVars, thrown, statVars, prepVars,
                   ewmaResults64, alarmVars, selectVars>>

\* calculateEWMA: the ewma of the results, computed in binary64
CallCalculateEWMA64 ==
    /\ "calculateEWMA64" \notin done
    /\ ewmaResults64' = calculateEWMA64(F64Values(rawData),
                                        F64OfRat(ewmaParams.lambda))
    /\ done' = done \cup {"calculateEWMA64"}
    /\ UNCHANGED <<rawData, chartVars, thrown, statVars, prepVars,
                   ewmaChart64, alarmVars, selectVars>>

NextFloat == RunEWMAChart64 \/ CallCalculateEWMA64

SpecFloat == InitFloat /\ [][NextFloat]_vars

\* bounds of the alarm store: up to MaxRecords records over AlarmIds (an id
\* can be added twice: addRecord does not look at the ids it holds)
MaxRecords == 3

AlarmIds == {"alarm_1", "alarm_2"}
AlarmStatuses == {"active", "acknowledged", "resolved"}
AlarmUsers == {"operator"}

\* the records handed to addRecord: any status, the optional fields unset
NewRecords ==
    [id : AlarmIds, status : AlarmStatuses, acknowledgedBy : {"unset"},
     acknowledgedAt : {"unset"}, resolvedAt : {"unset"}]

InitAlarms ==
    /\ rawData = << >>
    /\ ChartIdle
    /\ thrown = "none"
    /\ done = {}
    /\ OtherIdle
    /\ StatIdle
    /\ PrepIdle

\* addRecord(record)
AddRecord(record) ==
    /\ Len(records) < MaxRecords
    /\ records' = Append(records, record)
    /\ activeAlarms' = ActiveOf(records')
    /\ UNCHANGED <<rawData, chartVars, thrown, done, statVars, prepVars,
                   float64Vars, selectVars>>

\* acknowledgeAlarm(id, acknowledgedBy)
AcknowledgeAlarm(id, acknowledgedBy) ==
    /\ records' = [i \in 1..Len(records) |->
                     IF records[i].id = id
                     THEN AcknowledgedRecord(records[i], acknowledgedBy)
                     ELSE records[i]]
    /\ activeAlarms' = ActiveOf(records')
    /\ UNCHANGED <<rawData, chartVars, thrown, done, statVars, prepVars,
                   float64Vars, selectVars>>

\* resolveAlarm(id)
ResolveAlarm(id) ==
    /\ records' = [i \in 1..Len(records) |->
                     IF records[i].id = id THEN ResolvedRecord(records[i])
                     ELSE records[i]]
    /\ activeAlarms' = ActiveOf(records')
    /\ UNCHANGED <<rawData, chartVars, thrown, done, statVars, prepVars,
                   float64Vars, selectVars>>

NextAlarms ==
    \/ \E record \in NewRecords : AddRecord(record)
    \/ \E id \in AlarmIds, user \in AlarmUsers : AcknowledgeAlarm(id, user)
    \/ \E id \in AlarmIds : ResolveAlarm(id)

SpecAlarms == InitAlarms /\ [][NextAlarms]_vars

\* bound of the variable selection: up to MaxSelections clicks on a variable
MaxSelections == 3

ChartPages == {"EWMAChart", "CUSUMChart"}

\* a chart page has mounted with the file and a selected variable in the
\* store: rawData is [], the params are the defaults, and the effect of
\* loadDataForSelectedVariable has started the extraction of that variable
InitSelect ==
    /\ rawData = << >>
    /\ ChartIdle
    /\ thrown = "none"
    /\ done = {}
    /\ Float64Idle
    /\ AlarmIdle
    /\ StatIdle
    /\ PrepIdle
    /\ page \in ChartPages
    /\ selectedVariable \in SelectableVariables
    /\ pending = [c \in SelectableVariables |->
                     IF c = selectedVariable THEN 1 ELSE 0]
    /\ selections = 0

\* handleVariableChange(variable) up to its await, and the effect that
\* runs loadDataForSelectedVariable when selectedVariable has changed.
\* EWMAChart returns at once for the variable already selected; CUSUMChart
\* extracts it again.
HandleVariableChange(variable) ==
    /\ page \in ChartPages
    /\ selections < MaxSelections
    /\ selections' = selections + 1
    /\ IF page = "EWMAChart" /\ selectedVariable = variable
       THEN UNCHANGED <<selectedVariable, pending>>
       ELSE /\ selectedVariable' = variable
            /\ pending' = [pending EXCEPT ![variable] =
                              @ + (IF selectedVariable = variable THEN 1 ELSE 2)]
    /\ UNCHANGED <<rawData, chartVars, thrown, done, statVars, prepVars,
                   float64Vars, alarmVars, page>>

\* the continuation after await extractDataForVariable(file, columnIndex),
\* the same in handleVariableChange and loadDataForSelectedVariable:
\* setRawData(values) and setParams from the mean and deviation of values
CompleteExtraction(columnIndex) ==
    /\ page \in ChartPages
    /\ pending[columnIndex] > 0
    /\ pending' = [pending EXCEPT ![columnIndex] = @ - 1]
    /\ rawData' = ExtractedValues(columnIndex)
    /\ IF page = "EWMAChart"
       THEN /\ ewmaParams' = AutoEWMAParams(ewmaParams, rawData')
            /\ UNCHANGED cusumParams
       ELSE /\ cusumParams' = AutoCUSUMParams(cusumParams, rawData')
            /\ UNCHANGED ewmaParams
    /\ UNCHANGED <<cusumChart, analysisResults, cusumResults, ewmaChart,
                   ewmaResults, thrown, done, statVars, prepVars, float64Vars,
                   alarmVars, page, selectedVariable, selections>>

NextSelect ==
    \/ \E variable \in SelectableVariables : HandleVariableChange(variable)
    \/ \E columnIndex \in SelectableVariables : CompleteExtraction(columnIndex)

SpecSelect == InitSelect /\ [][NextSelect]_vars


---------------------------------------------------------------------------
(* Claims about the CUSUM passes (checked under SpecCUSUM).                *)

ChartDone == "CUSUMChart" \in done
CalcDone == "calculateCUSUM" \in done

\* the sums before point i (1-based): those of point i - 1, 0 before the first
PrevHigh(i) == IF i = 1 THEN Zero ELSE cusumChart[i - 1].cusumHigh
PrevLow(i) == IF i = 1 THEN Zero ELSE cusumChart[i - 1].cusumLow
PrevPos(i) == IF i = 1 THEN Zero ELSE cusumResults[i - 1].cusumPos
PrevNeg(i) == IF i = 1 THEN Zero ELSE cusumResults[i - 1].cusumNeg

\* v_i - target
Dev(i) == RSub(rawData[i], cusumParams.target)

\* the reference value and decision interval each pass works with
ChartK == cusumParams.k
ChartH == cusumParams.h
CalcK == RMul(cusumParams.k, cusumParams.sigma)
CalcH == RMul(cusumParams.h, cusumParams.sigma)

\* the configuration is in the domain of the data model:
\* sigma > 0, k >= 0, h > 0
ValidCUSUMConfig ==
    /\ RGt(cusumParams.sigma, Zero)
    /\ RGe(cusumParams.k, Zero)
    /\ RGt(cusumParams.h, Zero)

\* the recurrence of the claim on CUSUMChart (no FIR)
ChartRecurrence ==
    (ChartDone /\ ~cusumParams.fastInitialResponse) =>
        /\ Len(cusumChart) = Len(rawData)
        /\ \A i \in 1..Len(cusumChart) :
             /\ cusumChart[i].cusumHigh
                  = RMax(Zero, RSub(RAdd(PrevHigh(i), Dev(i)), ChartK))
             /\ cusumChart[i].cusumLow
                  = RMin(Zero, RAdd(RAdd(PrevLow(i), Dev(i)), ChartK))
             /\ RGe(cusumChart[i].cusumHigh, Zero)
             /\ RLe(cusumChart[i].cusumLow, Zero)

\* C1 as stated: every implementation reports the upper sum
\* max(0, C+ + (v - target) - K) >= 0 and the lower sum
\* min(0, C- + (v - target) + K) <= 0 (calculateCUSUM reports them as
\* cusumPos and cusumNeg).
C1_AsStated ==
    /\ ChartRecurrence
    /\ (CalcDone /\ ValidCUSUMConfig) =>
         /\ Len(cusumResults) = Len(rawData)
         /\ \A i \in 1..Len(cusumResults) :
              /\ cusumResults[i].cusumPos
                   = RMax(Zero, RSub(RAdd(PrevPos(i), Dev(i)), CalcK))
              /\ cusumResults[i].cusumNeg
                   = RMin(Zero, RAdd(RAdd(PrevNeg(i), Dev(i)), CalcK))
              /\ RGe(cusumResults[i].cusumPos, Zero)
              /\ RLe(cusumResults[i].cusumNeg, Zero)

\* C1 (amended): CUSUMChart reports cusumHigh = C+ >= 0 and cusumLow = C- <= 0
\* by the recurrence of the claim; calculateCUSUM reports cusumPos = C+ by the
\* same recurrence and cusumNeg = -C-, the magnitude of the lower sum:
\* cusumNeg_i = max(0, cusumNeg_(i-1) - (v_i - target) - K), never negative.
C1_Recurrence ==
    /\ ChartRecurrence
    /\ CalcDone =>
         /\ Len(cusumResults) = Len(rawData)
         /\ \A i \in 1..Len(cusumResults) :
              /\ cusumResults[i].cusumPos
                   = RMax(Zero, RSub(RAdd(PrevPos(i), Dev(i)), CalcK))
              /\ RNeg(cusumResults[i].cusumNeg)
                   = RMin(Zero, RAdd(RAdd(RNeg(PrevNeg(i)), Dev(i)), CalcK))
              /\ RGe(cusumResults[i].cusumPos, Zero)
              /\ RGe(cusumResults[i].cusumNeg, Zero)

\* both passes have run without FIR on a sequence that moves both sums of
\* both implementations away from 0
C1_Witness ==
    /\ ChartDone /\ CalcDone /\ ~cusumParams.fastInitialResponse
    /\ \E i, j \in 1..Len(cusumChart) :
         /\ RGt(cusumChart[i].cusumHigh, Zero)
         /\ RLt(cusumChart[j].cusumLow, Zero)
         /\ RGt(cusumResults[i].cusumPos, Zero)
         /\ RGt(cusumResults[j].cusumNeg, Zero)

\* C2: a point is flagged exactly when its upper sum is strictly above the
\* decision limit H or its lower sum strictly below -H, and the limits
\* reported with the point are H and -H.  H is the decision interval of the
\* pass (params.h in CUSUMChart, h * sigma in calculateCUSUM, whose lower sum
\* is -cusumNeg).
C2_OutOfControlFlag ==
    /\ ChartDone =>
         \A i \in 1..Len(cusumChart) :
            LET p == cusumChart[i]
            IN  /\ p.isOutOfControl
                     <=> ~(RLe(p.cusumHigh, ChartH) /\ RGe(p.cusumLow, RNeg(ChartH)))
                /\ p.upperLimit = ChartH
                /\ p.lowerLimit = RNeg(ChartH)
    /\ CalcDone =>
         \A i \in 1..Len(cusumResults) :
            LET r == cusumResults[i]
            IN  /\ r.isOutOfControl
                     <=> ~(RLe(r.cusumPos, CalcH)
                           /\ RGe(RNeg(r.cusumNeg), RNeg(CalcH)))
                /\ r.ucl = CalcH
                /\ r.lcl = RNeg(CalcH)

\* a run with a point whose upper sum equals the limit exactly (in control)
\* and a point flagged by the lower side alone, in both passes
C2_Witness ==
    /\ ChartDone /\ CalcDone
    /\ RGt(ChartH, Zero) /\ RGt(CalcH, Zero)
    /\ \E i, j \in 1..Len(cusumChart) :
         /\ cusumChart[i].cusumHigh = cusumChart[i].upperLimit
         /\ ~cusumChart[i].isOutOfControl
         /\ cusumChart[j].isOutOfControl
         /\ RLe(cusumChart[j].cusumHigh, ChartH)
         /\ cusumResults[i].cusumPos = cusumResults[i].ucl
         /\ ~cusumResults[i].isOutOfControl
         /\ cusumResults[j].isOutOfControl
         /\ RLe(cusumResults[j].cusumPos, CalcH)

\* the input is a non-empty constant sequence
IsConstant(raw) == Len(raw) > 0 /\ \A i \in 1..Len(raw) : raw[i] = raw[1]

\* the first flagged index of an annotated sequence, 0 when none is flagged
FirstFlagged(points) ==
    LET F == {i \in 1..Len(points) : points[i].isOutOfControl}
    IN  IF F = {} THEN 0 ELSE CHOOSE i \in F : \A j \in F : i <= j

\* the least i in 1..n with i * step > H, 0 when there is none
LeastCrossing(n, step, H) ==
    LET F == {i \in 1..n : RGt(RMul(RInt(i), step), H)}
    IN  IF F = {} THEN 0 ELSE CHOOSE i \in F : \A j \in F : i <= j

\* on a constant sequence above target + K the upper sums of `points' (read
\* by Upper) grow by v - target - K per step and the first flag is the first
\* crossing of H
LinearGrowth(points, Upper(_), K, H) ==
    LET step == RSub(Dev(1), K)
    IN  /\ \A i \in 1..Len(points) : Upper(points[i]) = RMul(RInt(i), step)
        /\ FirstFlagged(points) = LeastCrossing(Len(points), step, H)

HighOf(p) == p.cusumHigh
PosOf(r) == r.cusumPos

\* the end-to-end example: target 100, sigma 5, k 2.5, h 20, ten values 130
ExampleData == [i \in 1..10 |-> RInt(130)]
IsExample == rawData = ExampleData /\ cusumParams = DefaultCUSUMParams

\* calculateCUSUM takes k and h in sigma units
CalcInSigmaUnits ==
    /\ (CalcDone /\ ValidCUSUMConfig /\ IsConstant(rawData)
          /\ RGt(Dev(1), CalcK))
         => LinearGrowth(cusumResults, PosOf, CalcK, CalcH)
    /\ (CalcDone /\ IsExample) =>
         /\ \A i \in 1..10 : cusumResults[i].cusumPos = RMul(RInt(i), Rat(35, 2))
         /\ FirstFlagged(cusumResults) = 6

\* C3 as stated: every implementation takes k and h in sigma units
\* (K = k * sigma, H = h * sigma); in the example C+ grows by 17.5 per step
\* and step 6 is the first one flagged.
C3_AsStated ==
    /\ CalcInSigmaUnits
    /\ (ChartDone /\ ValidCUSUMConfig /\ ~cusumParams.fastInitialResponse
          /\ IsConstant(rawData) /\ RGt(Dev(1), CalcK))
         => LinearGrowth(cusumChart, HighOf, CalcK, CalcH)
    /\ (ChartDone /\ IsExample) =>
         /\ \A i \in 1..10 : cusumChart[i].cusumHigh = RMul(RInt(i), Rat(35, 2))
         /\ FirstFlagged(cusumChart) = 6

\* C3 (amended): calculateCUSUM takes k and h in sigma units (K = k * sigma,
\* H = h * sigma; the example grows by 17.5 per step and first flags step 6);
\* CUSUMChart takes params.k and params.h as K and H in data units (the
\* example grows by 130 - 100 - 2.5 = 27.5 per step and flags step 1).  For
\* either, with its own K and H, a constant sequence with v - target > K has
\* C+_i = i * (v - target - K) and first flags the least i with
\* i * (v - target - K) > H.
C3_Scaling ==
    /\ CalcInSigmaUnits
    /\ (ChartDone /\ ValidCUSUMConfig /\ ~cusumParams.fastInitialResponse
          /\ IsConstant(rawData) /\ RGt(Dev(1), ChartK))
         => LinearGrowth(cusumChart, HighOf, ChartK, ChartH)
    /\ (ChartDone /\ IsExample) =>
         /\ \A i \in 1..10 : cusumChart[i].cusumHigh = RMul(RInt(i), Rat(55, 2))
         /\ FirstFlagged(cusumChart) = 1

\* both passes have run on the example
C3_Witness ==
    /\ ChartDone /\ CalcDone /\ IsExample
    /\ cusumResults[5].cusumPos = Rat(175, 2) /\ ~cusumResults[5].isOutOfControl
    /\ cusumResults[6].cusumPos = RInt(105) /\ cusumResults[6].isOutOfControl

\* the number of flagged points
CountFlagged(points) ==
    Cardinality({i \in 1..Len(points) : points[i].isOutOfControl})

\* C4: with everything else fixed (FIR on or off), a larger decision
\* interval h never flags more points, in CUSUMChart and in calculateCUSUM.
C4_MonotoneInH ==
    /\ ChartDone =>
         \A h2 \in CusumHs :
            RLe(cusumParams.h, h2) =>
               CountFlagged(CUSUMChart_chartData(rawData,
                                [cusumParams EXCEPT !.h = h2]))
                 <= CountFlagged(cusumChart)
    /\ CalcDone =>
         \A h2 \in CusumHs :
            RLe(cusumParams.h, h2) =>
               CountFlagged(calculateCUSUM(rawData, cusumParams.target,
                                cusumParams.sigma, cusumParams.k, h2))
                 <= CountFlagged(cusumResults)

\* with FIR on, a larger h flags strictly fewer points, but still some
C4_Witness ==
    /\ ChartDone /\ CalcDone /\ cusumParams.fastInitialResponse
    /\ \E h2 \in CusumHs :
         LET n2 == CountFlagged(CUSUMChart_chartData(rawData,
                                    [cusumParams EXCEPT !.h = h2]))
             m2 == CountFlagged(calculateCUSUM(rawData, cusumParams.target,
                                    cusumParams.sigma, cusumParams.k, h2))
         IN  /\ RLt(cusumParams.h, h2)
             /\ 0 < n2 /\ n2 < CountFlagged(cusumChart)
             /\ 0 < m2 /\ m2 < CountFlagged(cusumResults)

---------------------------------------------------------------------------
(* Claims about the EWMA passes (checked under SpecEWMA).                  *)

EwmaChartDone == "EWMAChart" \in done
EwmaCalcDone == "calculateEWMA" \in done

\* the configuration is in the domain of the data model:
\* 0 < lambda <= 1 and sigma > 0
ValidEWMAConfig ==
    /\ RGt(ewmaParams.lambda, Zero)
    /\ RLe(ewmaParams.lambda, One)
    /\ RGt(ewmaParams.sigma, Zero)

\* lambda * v + (1 - lambda) * z
Smooth(v, z) ==
    RAdd(RMul(ewmaParams.lambda, v), RMul(RSub(One, ewmaParams.lambda), z))

\* every output of the sequence points is smoothed from the one before it,
\* the first one from the seed z0
SeededRecurrence(points, z0) ==
    /\ Len(points) = Len(rawData)
    /\ \A i \in 1..Len(points) :
         points[i].ewma
           = Smooth(rawData[i], IF i = 1 THEN z0 ELSE points[i - 1].ewma)

\* C5 as stated: both EWMAChart and calculateEWMA start from z_0 = target,
\* so z_1 = lambda * v_1 + (1 - lambda) * target, and every later output is
\* z_i = lambda * v_i + (1 - lambda) * z_(i-1).
C5_AsStated ==
    /\ EwmaChartDone => SeededRecurrence(ewmaChart, ewmaParams.target)
    /\ (EwmaCalcDone /\ ValidEWMAConfig) =>
         SeededRecurrence(ewmaResults, ewmaParams.target)

\* C5 (amended): EWMAChart starts from z_0 = target, so its first output is
\* z_1 = lambda * v_1 + (1 - lambda) * target; calculateEWMA starts from the
\* first value, z_1 = v_1 (the target is not used by its outputs); in both,
\* every later output is z_i = lambda * v_i + (1 - lambda) * z_(i-1).
C5_Seed ==
    /\ EwmaChartDone => SeededRecurrence(ewmaChart, ewmaParams.target)
    /\ EwmaCalcDone =>
         /\ Len(ewmaResults) = Len(rawData)
         /\ \A i \in 1..Len(ewmaResults) :
              ewmaResults[i].ewma
                = IF i = 1 THEN rawData[1]
                  ELSE Smooth(rawData[i], ewmaResults[i - 1].ewma)

\* both passes ran on a valid configuration with lambda < 1 and at least two
\* values, the first off target: the two first outputs differ and both
\* differ from the first value's neighbours in the recurrence
C5_Witness ==
    /\ EwmaChartDone /\ EwmaCalcDone /\ ValidEWMAConfig
    /\ RLt(ewmaParams.lambda, One)
    /\ Len(rawData) >= 2
    /\ rawData[1] # ewmaParams.target
    /\ ewmaChart[1].ewma # ewmaResults[1].ewma
    /\ ewmaChart[2].ewma # ewmaResults[2].ewma

\* (z - center)^2 and the squared half-width of the point's own limits
DevSq(p) ==
    LET d == RSub(p.ewma, p.ucl.base) IN RMul(d, d)
HalfWidthSq(p) == RMul(RMul(p.ucl.coef, p.ucl.coef), p.ucl.rad)

\* the point's limits are center +/- the same half-width >= 0
SymmetricLimits(p) ==
    /\ p.lcl.base = p.ucl.base
    /\ p.lcl.coef = RNeg(p.ucl.coef)
    /\ p.lcl.rad = p.ucl.rad
    /\ RGe(p.ucl.coef, Zero)
    /\ RGe(p.ucl.rad, Zero)

\* z outside the closed interval [LCL, UCL] of the point's own limits
OutsideLimits(p) == RGt(DevSq(p), HalfWidthSq(p))

\* the rule is among the violations reported for the point
Reported(p, rule) ==
    \E k \in 1..Len(p.violationRules) : p.violationRules[k] = rule

\* C6: for every point, isOutOfControl holds exactly when z lies outside the
\* closed interval [LCL_i, UCL_i] of that point's own limits (a value on a
\* limit is in control), in EWMAChart and in calculateEWMA; and EWMAChart
\* reports Rule 1 for exactly the points with isOutOfControl, from the first
\* point on.
C6_OutOfControlAndRule1 ==
    /\ EwmaChartDone =>
         \A i \in 1..Len(ewmaChart) :
            /\ SymmetricLimits(ewmaChart[i])
            /\ ewmaChart[i].ucl.base = ewmaChart[i].centerLine
            /\ ewmaChart[i].isOutOfControl <=> OutsideLimits(ewmaChart[i])
            /\ Reported(ewmaChart[i], "rule1") <=> ewmaChart[i].isOutOfControl
    /\ EwmaCalcDone =>
         \A i \in 1..Len(ewmaResults) :
            /\ SymmetricLimits(ewmaResults[i])
            /\ ewmaResults[i].isOutOfControl <=> OutsideLimits(ewmaResults[i])

\* a valid configuration where one point sits exactly on its own limit, with
\* a limit of positive width, and is in control with no Rule 1, and another
\* point is outside its limits and reported by Rule 1 at the first point
C6_Witness ==
    /\ EwmaChartDone /\ EwmaCalcDone /\ ValidEWMAConfig
    /\ Len(ewmaChart) >= 2
    /\ ewmaChart[1].isOutOfControl /\ Reported(ewmaChart[1], "rule1")
    /\ \E i \in 2..Len(ewmaChart) :
         /\ DevSq(ewmaChart[i]) = HalfWidthSq(ewmaChart[i])
         /\ HalfWidthSq(ewmaChart[i])[1] > 0
         /\ ~ewmaChart[i].isOutOfControl
         /\ ~Reported(ewmaChart[i], "rule1")

\* the center line of the chart and the EWMA value of point i (1-based)
Center == ewmaParams.target
Z(i) == ewmaChart[i].ewma

\* C7: Rule 2 is reported at point i exactly when at least 9 points exist up
\* to i and the 9 consecutive EWMA values ending at i are all strictly above
\* the center line or all strictly below it; never at the first 8 points.
C7_Rule2 ==
    EwmaChartDone =>
        \A i \in 1..Len(ewmaChart) :
           /\ Reported(ewmaChart[i], "rule2") <=>
                /\ i >= 9
                /\ \/ \A j \in (i - 8)..i : RGt(Z(j), Center)
                   \/ \A j \in (i - 8)..i : RLt(Z(j), Center)
           /\ i <= 8 => ~Reported(ewmaChart[i], "rule2")

\* nine values above the center line with a smoothed history: Rule 2 is
\* reported at point 9 and at none of the first 8 points
C7_Witness ==
    /\ EwmaChartDone /\ ValidEWMAConfig
    /\ RLt(ewmaParams.lambda, One)
    /\ Len(ewmaChart) >= 9
    /\ Reported(ewmaChart[9], "rule2")
    /\ \A j \in 1..9 : RGt(Z(j), Center)
    /\ \A j \in 1..8 : ~Reported(ewmaChart[j], "rule2")

\* C8: Rule 3 is reported at point i exactly when at least 6 points exist up
\* to i and the 6 consecutive EWMA values ending at i are strictly increasing
\* or strictly decreasing; never at the first 5 points.
C8_Rule3 ==
    EwmaChartDone =>
        \A i \in 1..Len(ewmaChart) :
           /\ Reported(ewmaChart[i], "rule3") <=>
                /\ i >= 6
                /\ \/ \A j \in (i - 4)..i : RGt(Z(j), Z(j - 1))
                   \/ \A j \in (i - 4)..i : RLt(Z(j), Z(j - 1))
           /\ i <= 5 => ~Reported(ewmaChart[i], "rule3")

\* the EWMA falls strictly over the first 6 points, where Rule 3 is reported
\* and not before, and a later step up ends the run
C8_Witness ==
    /\ EwmaChartDone /\ ValidEWMAConfig
    /\ Len(ewmaChart) >= 7
    /\ \A j \in 2..6 : RLt(Z(j), Z(j - 1))
    /\ Reported(ewmaChart[6], "rule3")
    /\ \A j \in 1..5 : ~Reported(ewmaChart[j], "rule3")
    /\ \E i \in 7..Len(ewmaChart) :
         /\ RGt(Z(i), Z(i - 1))
         /\ ~Reported(ewmaChart[i], "rule3")

\* beyond the 2-sigma band around the center line, and strictly between the
\* point's own control limits (a value on the band's edge or on a limit is
\* not counted)
Beyond2Sigma(p) ==
    LET band == RMul(Two, ewmaParams.sigma)
    IN  \/ RGt(p.ewma, RAdd(p.centerLine, band))
        \/ RLt(p.ewma, RSub(p.centerLine, band))
InsideOwnLimits(p) == RLt(DevSq(p), HalfWidthSq(p))

\* C9: Rule 5 is reported at point i exactly when at least 3 points exist up
\* to i and at least 2 of the 3 EWMA values ending at i lie beyond the
\* 2-sigma band around the center line while strictly inside their own
\* control limits; never at the first 2 points.
C9_Rule5 ==
    EwmaChartDone =>
        \A i \in 1..Len(ewmaChart) :
           /\ Reported(ewmaChart[i], "rule5") <=>
                /\ i >= 3
                /\ Cardinality({j \in (i - 2)..i :
                                  /\ Beyond2Sigma(ewmaChart[j])
                                  /\ InsideOwnLimits(ewmaChart[j])}) >= 2
           /\ i <= 2 => ~Reported(ewmaChart[i], "rule5")

\* the first two values are beyond the band and inside their limits, the
\* third is not: Rule 5 is reported at point 3 with exactly 2 of 3, and not
\* at points 1 and 2
C9_Witness ==
    /\ EwmaChartDone /\ ValidEWMAConfig
    /\ Len(ewmaChart) >= 3
    /\ Reported(ewmaChart[3], "rule5")
    /\ \A j \in 1..2 : /\ Beyond2Sigma(ewmaChart[j])
                       /\ InsideOwnLimits(ewmaChart[j])
                       /\ ~Reported(ewmaChart[j], "rule5")
    /\ ~Beyond2Sigma(ewmaChart[3])

\* C10 as stated, for calls on at least one value: a call with an invalid
\* configuration (calculateEWMA: lambda outside (0, 1] or sigma <= 0;
\* calculateCUSUM: sigma <= 0, k < 0 or h <= 0) fails with InvalidConfigError
\* and yields no output.
C10_AsStated ==
    /\ (EwmaCalcDone /\ ~ValidEWMAConfig /\ Len(rawData) > 0) =>
         /\ thrown = "InvalidConfigError"
         /\ ewmaResults = << >>
    /\ (CalcDone /\ ~ValidCUSUMConfig /\ Len(rawData) > 0) =>
         /\ thrown = "InvalidConfigError"
         /\ cusumResults = << >>

\* C12: called with an empty sequence, calculateEWMA and calculateCUSUM (and
\* the chartData passes of EWMAChart and CUSUMChart) return an empty output
\* and raise no error, for every configuration, valid or not.
C12_EmptyInput ==
    rawData = << >> =>
        /\ thrown = "none"
        /\ EwmaCalcDone => ewmaResults = << >>
        /\ CalcDone => cusumResults = << >>
        /\ EwmaChartDone => ewmaChart = << >>
        /\ ChartDone => cusumChart = << >>

\* all four passes have run on an empty sequence, with configurations that
\* are outside the valid domain
C12_Witness ==
    /\ rawData = << >>
    /\ EwmaCalcDone /\ CalcDone /\ EwmaChartDone /\ ChartDone
    /\ ~ValidEWMAConfig /\ ~ValidCUSUMConfig
    /\ ewmaResults = << >> /\ cusumResults = << >>

\* the limit is the rational x: base + coef * sqrt(1)
LimitIs(limit, x) == limit.rad = One /\ RAdd(limit.base, limit.coef) = x

\* target +/- L * sigma
UpperFixed == RAdd(ewmaParams.target, RMul(ewmaParams.L, ewmaParams.sigma))
LowerFixed == RSub(ewmaParams.target, RMul(ewmaParams.L, ewmaParams.sigma))

\* C13: with lambda = 1, at every point of any sequence the control limits
\* are exactly target + L * sigma and target - L * sigma and the EWMA equals
\* the value, in EWMAChart and in calculateEWMA.
C13_LambdaOne ==
    ewmaParams.lambda = One =>
        /\ EwmaChartDone =>
             \A i \in 1..Len(ewmaChart) :
                /\ LimitIs(ewmaChart[i].ucl, UpperFixed)
                /\ LimitIs(ewmaChart[i].lcl, LowerFixed)
                /\ ewmaChart[i].ewma = rawData[i]
        /\ EwmaCalcDone =>
             \A i \in 1..Len(ewmaResults) :
                /\ LimitIs(ewmaResults[i].ucl, UpperFixed)
                /\ LimitIs(ewmaResults[i].lcl, LowerFixed)
                /\ ewmaResults[i].ewma = rawData[i]

\* both passes ran with lambda = 1 and sigma > 0 on at least 3 values that
\* start off target and change
C13_Witness ==
    /\ ewmaParams.lambda = One /\ RGt(ewmaParams.sigma, Zero)
    /\ EwmaChartDone /\ EwmaCalcDone
    /\ Len(ewmaChart) >= 3 /\ Len(ewmaResults) >= 3
    /\ rawData[1] # ewmaParams.target
    /\ rawData[2] # rawData[1]
    /\ RLt(LowerFixed, UpperFixed)

---------------------------------------------------------------------------
(* Claims about the statistics functions (checked under SpecStats).        *)

StatsDone == "calculateStatistics" \in done
CapabilityDone == "calculateProcessCapability" \in done
IQRDone == "detectOutliersIQR" \in done
MZDone == "detectOutliersModifiedZScore" \in done

\* C11 as stated, for calls on at least one value: with usl <= lsl,
\* calculateProcessCapability fails with InvalidSpecError and returns no
\* capability indices.
C11_AsStated ==
    (CapabilityDone /\ RLe(statParams.usl, statParams.lsl) /\ Len(rawData) > 0)
        => capability.threw = "InvalidSpecError"

\* C14 as stated: calculateStatistics on a single value returns
\* variance = 0 and stdDev = 0, never NaN, and on no value it fails with an
\* error.
C14_AsStated ==
    StatsDone =>
        /\ Len(rawData) = 1 =>
             /\ statistics.threw = "none"
             /\ statistics.variance = Zero
             /\ statistics.stdDev.q = Zero
        /\ Len(rawData) = 0 => statistics.threw # "none"

\* the sequence has at least 2 values, all the same
ConstantInput == Len(rawData) >= 2 /\ IsConstant(rawData)

\* the index is a number or an infinity, not NaN
Defined(index) == ~IsNaN(index.q)

\* C15 as stated: for a constant sequence of length >= 2, calculateStatistics
\* returns stdDev = 0 and iqr = 0, and calculateProcessCapability with
\* usl > lsl returns without an exception a Cp and a Cpk that are not NaN
\* (an infinity is taken as a defined sentinel), also when the constant
\* equals usl or lsl.
C15_AsStated ==
    ConstantInput =>
        /\ StatsDone =>
             /\ statistics.threw = "none"
             /\ statistics.stdDev.q = Zero
             /\ statistics.iqr = Zero
        /\ (CapabilityDone /\ RGt(statParams.usl, statParams.lsl)) =>
             /\ capability.threw = "none"
             /\ Defined(capability.cp)
             /\ Defined(capability.cpk)

\* the value of 0-based rank k in the sorted order of values: fewer than
\* k + 1 values lie below it and at least k + 1 values are at most it
RankValue(values, k) ==
    CHOOSE x \in {values[i] : i \in 1..Len(values)} :
        /\ Cardinality({i \in 1..Len(values) : RLt(values[i], x)}) <= k
        /\ Cardinality({i \in 1..Len(values) : RLe(values[i], x)}) > k

\* the quartiles of rawData and the fences at multiplier * IQR
Q1 == RankValue(rawData, Len(rawData) \div 4)
Q3 == RankValue(rawData, (3 * Len(rawData)) \div 4)
LowerFence == RSub(Q1, RMul(statParams.multiplier, RSub(Q3, Q1)))
UpperFence == RAdd(Q3, RMul(statParams.multiplier, RSub(Q3, Q1)))

\* the input positions detectOutliersIQR flagged
IQRFlagged ==
    {j \in 1..Len(iqrOutliers.results) : iqrOutliers.results[j].isOutlier}

\* C16: with Q1 and Q3 taken from the sorted copy of the values,
\* detectOutliersIQR returns one result per value, in input order, and
\* flags value j exactly when it is below Q1 - m * IQR or above
\* Q3 + m * IQR; with m = 1.5, [10, 11, 9, 10, 11, 1000] has only 1000
\* flagged and a constant sequence of 5s has nothing flagged.
C16_IQROutliers ==
    (IQRDone /\ Len(rawData) > 0) =>
        /\ iqrOutliers.threw = "none"
        /\ Len(iqrOutliers.results) = Len(rawData)
        /\ \A j \in 1..Len(rawData) :
             iqrOutliers.results[j].isOutlier
               <=> (RLt(rawData[j], LowerFence) \/ RGt(rawData[j], UpperFence))
        /\ statParams.multiplier = Rat(3, 2) =>
             /\ rawData = IQRExample => IQRFlagged = {6}
             /\ (IsConstant(rawData) /\ rawData[1] = RInt(5)) => IQRFlagged = {}

\* the call on the example with the default multiplier: fences 8.5 and
\* 12.5, only the sixth value flagged
C16_Witness ==
    /\ IQRDone /\ rawData = IQRExample
    /\ statParams.multiplier = Rat(3, 2)
    /\ LowerFence = Rat(17, 2) /\ UpperFence = Rat(25, 2)
    /\ iqrOutliers.results[6].isOutlier
    /\ \A j \in 1..5 : ~iqrOutliers.results[j].isOutlier

\* C17 as stated: when the median absolute deviation is 0,
\* detectOutliersModifiedZScore marks every point as non-outlier and does
\* not fail.
C17_AsStated ==
    (MZDone /\ Len(rawData) > 0) =>
        /\ mzOutliers.threw = "none"
        /\ mzOutliers.mad = Zero =>
             \A j \in 1..Len(rawData) : ~mzOutliers.results[j].isOutlier

---------------------------------------------------------------------------
(* Claims about the preprocessing functions (checked under SpecPrep).      *)

InterpolateDone == "interpolateData" \in done
SmoothDone == "smoothData" \in done

\* positions p < q hold finite values and every position between them holds
\* a missing or non-finite value: a maximal interior run bounded by a and b
BoundedRun(p, q) ==
    /\ p + 1 < q
    /\ IsFinite(inputValues[p]) /\ IsFinite(inputValues[q])
    /\ \A i \in (p + 1)..(q - 1) : ~IsFinite(inputValues[i])

\* a + (i - p) / (q - p) * (b - a)
OnTheLine(p, q, i) ==
    RAdd(inputValues[p],
         RMul(Rat(i - p, q - p), RSub(inputValues[q], inputValues[p])))

\* C18 as stated: every position of a maximal run of missing or non-finite
\* values bounded by valid values a at p and b at q is assigned
\* a + (i - p) / (q - p) * (b - a), whatever the length of the run; the
\* output has the length of the input; [1, NaN, 3] gives [1, 2, 3].
C18_AsStated ==
    InterpolateDone =>
        /\ Len(interpolated) = Len(inputValues)
        /\ \A p, q \in 1..Len(inputValues) :
             BoundedRun(p, q) =>
                \A i \in (p + 1)..(q - 1) : interpolated[i] = OnTheLine(p, q, i)
        /\ inputValues = <<One, NaN, RInt(3)>>
             => interpolated = <<One, Two, RInt(3)>>

\* no value other than NaN at a position before i, or none after i
OneSided(i) ==
    \/ \A j \in 1..(i - 1) : IsNaN(inputValues[j])
    \/ \A j \in (i + 1)..Len(inputValues) : IsNaN(inputValues[j])

C20_AsStated == dataPoints = inputValues

\* the first and the last position of the window of windowSize values that
\* starts floor(windowSize / 2) positions to the left of j, cut at the
\* bounds of the sequence
ClampedFirst(j) ==
    IF j - (windowSize \div 2) > 1 THEN j - (windowSize \div 2) ELSE 1

ClampedLast(j) ==
    IF j - (windowSize \div 2) + windowSize - 1 < Len(inputValues)
    THEN j - (windowSize \div 2) + windowSize - 1
    ELSE Len(inputValues)

\* the mean of the input values at the positions of the clamped window
ClampedMean(j) ==
    LET window == SubSeq(inputValues, ClampedFirst(j), ClampedLast(j))
    IN  XDiv(XSumOf(window), RInt(Len(window)))

\* every input value is a number
AllFinite == \A i \in 1..Len(inputValues) : IsFinite(inputValues[i])

\* C21 as stated, for sequences of numbers: smoothData on the caller's
\* sequence returns at every j the mean of the input values in the window
\* centred at j and clamped to the bounds of the sequence, also for
\* sequences shorter than windowSize; the output has the length of the
\* input, and windowSize = 1 returns the values unchanged.
C21_AsStated ==
    (SmoothDone /\ ~InterpolateDone /\ AllFinite) =>
        /\ Len(smoothed) = Len(inputValues)
        /\ \A j \in 1..Len(inputValues) : smoothed[j] = ClampedMean(j)
        /\ windowSize = 1 => smoothed = inputValues

---------------------------------------------------------------------------
(* Further claims about the CUSUM passes (checked under SpecCUSUM).        *)

\* the head start of the chart: h / 2 with FIR enabled, 0 with FIR disabled
HeadStart == IF cusumParams.fastInitialResponse THEN RDiv(ChartH, Two) ELSE Zero

\* C22: the first point of CUSUMChart is computed from a head start of
\* +H/2 and -H/2 with FIR enabled, C+_1 = max(0, H/2 + (v_1 - target) - K)
\* and C-_1 = min(0, -H/2 + (v_1 - target) + K), and from 0 with FIR
\* disabled; every later point follows the ordinary recurrence from the
\* sums of the point before it.
C22_FastInitialResponse ==
    (ChartDone /\ Len(rawData) > 0) =>
        /\ Len(cusumChart) = Len(rawData)
        /\ cusumChart[1].cusumHigh
             = RMax(Zero, RSub(RAdd(HeadStart, Dev(1)), ChartK))
        /\ cusumChart[1].cusumLow
             = RMin(Zero, RAdd(RAdd(RNeg(HeadStart), Dev(1)), ChartK))
        /\ \A i \in 2..Len(cusumChart) :
             /\ cusumChart[i].cusumHigh
                  = RMax(Zero, RSub(RAdd(cusumChart[i - 1].cusumHigh, Dev(i)), ChartK))
             /\ cusumChart[i].cusumLow
                  = RMin(Zero, RAdd(RAdd(cusumChart[i - 1].cusumLow, Dev(i)), ChartK))

\* a FIR run on target whose first point carries both head starts (upper
\* sum h/2 - k > 0, lower sum k - h/2 < 0) and whose second point has moved
\* both sums on by the ordinary recurrence
C22_Witness ==
    /\ ChartDone /\ cusumParams.fastInitialResponse
    /\ RGt(ChartH, Zero) /\ RGt(ChartK, Zero)
    /\ Len(cusumChart) >= 2
    /\ Dev(1) = Zero
    /\ cusumChart[1].cusumHigh = RSub(RDiv(ChartH, Two), ChartK)
    /\ cusumChart[1].cusumLow = RSub(ChartK, RDiv(ChartH, Two))
    /\ RGt(cusumChart[1].cusumHigh, Zero)
    /\ cusumChart[2].cusumHigh # cusumChart[1].cusumHigh
    /\ cusumChart[2].cusumLow # cusumChart[1].cusumLow

\* (a) point i - 1 is in control and point i is out of control
Transition(i) ==
    ~cusumChart[i - 1].isOutOfControl /\ cusumChart[i].isOutOfControl

\* (b) one of the sums moved by more than H / 2 from point i - 1 to point i
Jump(i) ==
    \/ RGt(RAbs(RSub(cusumChart[i].cusumHigh, cusumChart[i - 1].cusumHigh)),
           RDiv(ChartH, Two))
    \/ RGt(RAbs(RSub(cusumChart[i].cusumLow, cusumChart[i - 1].cusumLow)),
           RDiv(ChartH, Two))

\* C23: a point of CUSUMChart that has a predecessor is flagged as a change
\* point exactly when the predecessor is in control and the point is out of
\* control, or one of the two sums moved by strictly more than H / 2; the
\* first point is never flagged, even when it is out of control.
C23_ChangePoint ==
    ChartDone =>
        \A i \in 1..Len(cusumChart) :
            /\ i = 1 => ~cusumChart[i].changePoint
            /\ i > 1 => (cusumChart[i].changePoint <=> (Transition(i) \/ Jump(i)))

\* a run on a valid configuration with a point flagged by the transition
\* alone (no sum moved by more than H / 2), followed by an out-of-control
\* point that is not flagged
C23_Witness ==
    /\ ChartDone /\ RGt(ChartH, Zero) /\ RGe(ChartK, Zero)
    /\ ~cusumParams.fastInitialResponse
    /\ \E i \in 2..(Len(cusumChart) - 1) :
         /\ cusumChart[i].changePoint
         /\ Transition(i) /\ ~Jump(i)
         /\ cusumChart[i + 1].isOutOfControl
         /\ ~cusumChart[i + 1].changePoint

\* the chart of the same rawData, target, k and h with FIR enabled and with
\* FIR disabled: the memoised chart for the setting of the page, the pass
\* computed again for the other setting
WithFIR ==
    IF cusumParams.fastInitialResponse THEN cusumChart
    ELSE CUSUMChart_chartData(rawData,
             [cusumParams EXCEPT !.fastInitialResponse = TRUE])

WithoutFIR ==
    IF ~cusumParams.fastInitialResponse THEN cusumChart
    ELSE CUSUMChart_chartData(rawData,
             [cusumParams EXCEPT !.fastInitialResponse = FALSE])

\* the position of the first out-of-control point, Len + 1 when there is none
FirstSignal(chartData) ==
    IF \E i \in 1..Len(chartData) : chartData[i].isOutOfControl
    THEN CHOOSE i \in 1..Len(chartData) :
            /\ chartData[i].isOutOfControl
            /\ \A j \in 1..(i - 1) : ~chartData[j].isOutOfControl
    ELSE Len(chartData) + 1

\* C26: for h >= 0 and the same input, target and k, at every point the
\* upper sum with FIR is >= the upper sum without FIR and the lower sum with
\* FIR is <= the lower sum without FIR; every point flagged without FIR is
\* flagged with FIR, and the first out-of-control point with FIR is never
\* later than without FIR.
C26_FIRNeverDelays ==
    (ChartDone /\ RGe(ChartH, Zero)) =>
        LET fir == WithFIR
            plain == WithoutFIR
        IN  /\ Len(fir) = Len(plain)
            /\ \A i \in 1..Len(plain) :
                 /\ RGe(fir[i].cusumHigh, plain[i].cusumHigh)
                 /\ RLe(fir[i].cusumLow, plain[i].cusumLow)
                 /\ plain[i].isOutOfControl => fir[i].isOutOfControl
            /\ FirstSignal(fir) <= FirstSignal(plain)

\* a valid configuration on which both charts signal and the chart with FIR
\* signals strictly earlier, with a larger upper sum at every point before
C26_Witness ==
    /\ ChartDone /\ RGt(ChartH, Zero) /\ RGe(ChartK, Zero)
    /\ FirstSignal(WithFIR) < FirstSignal(WithoutFIR)
    /\ FirstSignal(WithoutFIR) <= Len(rawData)
    /\ \A i \in 1..FirstSignal(WithFIR) :
         RGt(WithFIR[i].cusumHigh, WithoutFIR[i].cusumHigh)

\* the chart computed with FIR disabled from the same rawData and target with
\* its parameters set to k' = k * sigma and h' = h * sigma
ScaledChart ==
    CUSUMChart_chartData(rawData,
        [cusumParams EXCEPT !.k = RMul(cusumParams.k, cusumParams.sigma),
                            !.h = RMul(cusumParams.h, cusumParams.sigma),
                            !.fastInitialResponse = FALSE])

\* C28: with FIR disabled and the chart's parameters set to k' = k * sigma
\* and h' = h * sigma, at every point the chart's cusumHigh equals
\* calculateCUSUM's cusumPos, the chart's cusumLow equals minus
\* calculateCUSUM's cusumNeg, and both flag the same points.
C28_ImplementationsAgree ==
    CalcDone =>
        LET chart == ScaledChart
        IN  /\ Len(chart) = Len(cusumResults)
            /\ \A i \in 1..Len(cusumResults) :
                 /\ chart[i].cusumHigh = cusumResults[i].cusumPos
                 /\ chart[i].cusumLow = RNeg(cusumResults[i].cusumNeg)
                 /\ chart[i].isOutOfControl <=> cusumResults[i].isOutOfControl
            /\ (ChartDone /\ cusumParams.sigma = One
                  /\ ~cusumParams.fastInitialResponse) => cusumChart = chart

\* calculateCUSUM ran with sigma = 5 on a valid configuration: an upper sum
\* above 0 in control, a point flagged out of control, and a lower sum
\* reported as a positive cusumNeg
C28_Witness ==
    /\ CalcDone /\ ValidCUSUMConfig /\ cusumParams.sigma = RInt(5)
    /\ RGt(cusumParams.k, Zero)
    /\ \E i, j, m \in 1..Len(cusumResults) :
         /\ RGt(cusumResults[i].cusumPos, Zero)
         /\ ~cusumResults[i].isOutOfControl
         /\ cusumResults[j].isOutOfControl
         /\ RGt(cusumResults[m].cusumNeg, Zero)
         /\ RLt(ScaledChart[m].cusumLow, Zero)

---------------------------------------------------------------------------
(* Claims about the run-length analysis (checked under SpecAnalysis).      *)

\* the positions of the out-of-control points of the chart
Signals == {i \in 1..Len(cusumChart) : cusumChart[i].isOutOfControl}

\* the position of the last signal before position i, 0 when there is none
PrevSignal(i) ==
    IF \E j \in Signals : j < i
    THEN CHOOSE j \in Signals : j < i /\ \A m \in Signals : m < i => m <= j
    ELSE 0

\* the length of the segment that the signal at position i ends: the points
\* after the previous signal up to and including i
SegmentLength(i) == i - PrevSignal(i)

\* the sum of the segment lengths of the signals at positions 1..n
RECURSIVE SumOfSegments(_)
SumOfSegments(n) ==
    IF n = 0 THEN 0
    ELSE SumOfSegments(n - 1) + (IF n \in Signals THEN SegmentLength(n) ELSE 0)

\* the arithmetic mean of the segment lengths, the sequence length when
\* there is no signal
MeanRunLength ==
    IF Signals # {}
    THEN Rat(SumOfSegments(Len(cusumChart)), Cardinality(Signals))
    ELSE RInt(Len(cusumChart))

\* the number a decimal string "units.tenths" denotes
FixedValue(s) == Rat(10 * s.units + s.tenths, 10)

NearestTenth(s, x) ==
    LET d == RSub(FixedValue(s), x)
    IN  /\ s.tenths \in 0..9
        /\ RLe(RAbs(d), Rat(1, 20))
        /\ RAbs(d) = Rat(1, 20) => RGt(d, Zero)

---------------------------------------------------------------------------
(* Further claims about the EWMA passes (checked under SpecEWMA).          *)

\* L^2 * sigma^2 * lambda / (2 - lambda), the square of the asymptotic
\* half-width
AsymptoticSq ==
    RMul(RMul(RMul(ewmaParams.L, ewmaParams.L),
              RMul(ewmaParams.sigma, ewmaParams.sigma)),
         RDiv(ewmaParams.lambda, RSub(Two, ewmaParams.lambda)))

\* L^2 * sigma^2 * (lambda / (2 - lambda)) * (1 - (1 - lambda)^(2i))
TimeVaryingSq(i) ==
    RMul(AsymptoticSq,
         RSub(One, RPow(RSub(One, ewmaParams.lambda), 2 * i)))

\* C25: for lambda in (0, 1], sigma > 0 and L > 0, the limits of point i of
\* EWMAChart are symmetric about the target with squared half-width
\* L^2 sigma^2 (lambda / (2 - lambda)) (1 - (1 - lambda)^(2i)); the
\* half-width never decreases from a point to the next and never exceeds the
\* asymptotic half-width L sigma sqrt(lambda / (2 - lambda)), which
\* calculateEWMA (fixed limits) applies unchanged at every point from the
\* first.
C25_TimeVaryingLimits ==
    ValidEWMAConfig =>
        /\ EwmaChartDone =>
             \A i \in 1..Len(ewmaChart) :
                /\ SymmetricLimits(ewmaChart[i])
                /\ ewmaChart[i].ucl.base = ewmaParams.target
                /\ HalfWidthSq(ewmaChart[i]) = TimeVaryingSq(i)
                /\ i > 1 => RLe(HalfWidthSq(ewmaChart[i - 1]),
                                HalfWidthSq(ewmaChart[i]))
                /\ RLe(HalfWidthSq(ewmaChart[i]), AsymptoticSq)
        /\ EwmaCalcDone =>
             \A i \in 1..Len(ewmaResults) :
                /\ SymmetricLimits(ewmaResults[i])
                /\ ewmaResults[i].ucl.base = ewmaParams.target
                /\ HalfWidthSq(ewmaResults[i]) = AsymptoticSq

\* both passes ran on a valid configuration with lambda < 1 on at least 3
\* values: the chart's limits widen at every point and stay inside the
\* fixed limits of calculateEWMA
C25_Witness ==
    /\ ValidEWMAConfig /\ RLt(ewmaParams.lambda, One)
    /\ EwmaChartDone /\ EwmaCalcDone
    /\ Len(ewmaChart) >= 3
    /\ RGt(HalfWidthSq(ewmaChart[1]), Zero)
    /\ RLt(HalfWidthSq(ewmaChart[1]), HalfWidthSq(ewmaChart[2]))
    /\ RLt(HalfWidthSq(ewmaChart[2]), HalfWidthSq(ewmaChart[3]))
    /\ RLt(HalfWidthSq(ewmaChart[3]), HalfWidthSq(ewmaResults[1]))
    /\ HalfWidthSq(ewmaResults[3]) = HalfWidthSq(ewmaResults[1])

---------------------------------------------------------------------------
(* Claims about the EWMA passes in binary64 (checked under SpecFloat).     *)

Chart64Done == "EWMAChart64" \in done
Calc64Done == "calculateEWMA64" \in done

\* the Numbers of the target and of the first i values
Target64 == F64OfRat(ewmaParams.target)
Value64(i) == F64OfRat(rawData[i])

\* z is at least every one of the Numbers of S and at most one of them, and
\* at most every one and at least one of them: min(S) <= z <= max(S)
WithinRange(z, S) ==
    /\ \E lo \in S : F64Le(lo, z)
    /\ \E hi \in S : F64Le(z, hi)

\* every value of the sequence equals the target
AllOnTarget == \A i \in 1..Len(rawData) : rawData[i] = ewmaParams.target

\* C27 as stated: for lambda in (0, 1], at every point the ewma of EWMAChart
\* lies between the least and the greatest of the target and the values up
\* to the point, and the ewma of calculateEWMA between the least and the
\* greatest of the values up to the point; when every value equals the
\* target the ewma equals the target at every point and no point is flagged.
C27_AsStated ==
    /\ Chart64Done =>
         \A i \in 1..Len(ewmaChart64) :
            /\ WithinRange(ewmaChart64[i].ewma,
                           {Target64} \cup {Value64(j) : j \in 1..i})
            /\ AllOnTarget =>
                 /\ ewmaChart64[i].ewma = Target64
                 /\ ~ewmaChart64[i].rule2
    /\ Calc64Done =>
         \A i \in 1..Len(ewmaResults64) :
            /\ WithinRange(ewmaResults64[i].ewma, {Value64(j) : j \in 1..i})
            /\ AllOnTarget => ewmaResults64[i].ewma = Target64

---------------------------------------------------------------------------
(* Claims about the alarm store (checked under SpecAlarms).                *)

\* the records among the first n whose status is 'active', in record order
RECURSIVE ActiveAmong(_)
ActiveAmong(n) ==
    IF n = 0 THEN << >>
    ELSE IF records[n].status = "active"
         THEN Append(ActiveAmong(n - 1), records[n])
         ELSE ActiveAmong(n - 1)

\* activeAlarms is the list of the active records, which getActiveAlarms()
\* returns as well
ActiveConsistent ==
    /\ activeAlarms = ActiveAmong(Len(records))
    /\ activeAlarms = getActiveAlarms

\* no record is removed or moved, and no record that is not active becomes
\* active
RecordsKept ==
    /\ Len(records') >= Len(records)
    /\ \A i \in 1..Len(records) :
         /\ records'[i].id = records[i].id
         /\ records[i].status # "active" => records'[i].status # "active"

\* a step that adds no record acts on one id: the records of that id are
\* not active and not in activeAlarms after it, every other record is as it
\* was; a step that adds a record leaves the records before it as they were
OneIdChanged ==
    IF Len(records') = Len(records)
    THEN \E id \in AlarmIds :
            /\ \A i \in 1..Len(records) :
                 IF records[i].id = id
                 THEN records'[i].status \in {"acknowledged", "resolved"}
                 ELSE records'[i] = records[i]
            /\ \A j \in 1..Len(activeAlarms') : activeAlarms'[j].id # id
    ELSE SubSeq(records', 1, Len(records)) = records

\* C29: after any sequence of addRecord, acknowledgeAlarm and resolveAlarm
\* calls, activeAlarms is exactly the list of the records whose status is
\* 'active', in record order, equal to getActiveAlarms(); acknowledging or
\* resolving an id removes its records from activeAlarms and leaves every
\* other record unchanged; no call removes a record or sets a status back
\* to 'active'.
C29_AlarmConsistency ==
    [][ActiveConsistent /\ ActiveConsistent' /\ RecordsKept /\ OneIdChanged]_vars

\* a store with an active, an acknowledged and a resolved record, the last
\* two made so by calls on records added active
C29_Witness ==
    /\ Len(records) = 3
    /\ Len(activeAlarms) = 1
    /\ \E i, j \in 1..3 :
         /\ records[i].status = "acknowledged"
         /\ records[i].acknowledgedBy = "operator"
         /\ records[j].status = "resolved"
         /\ records[j].resolvedAt = "now"
         /\ records[j].acknowledgedBy = "operator"

---------------------------------------------------------------------------
(* Claims about variable selection (checked under SpecSelect).             *)

\* no extraction is in flight
NoExtractionPending == \A c \in SelectableVariables : pending[c] = 0

\* the values of the selected variable's column
SelectedValues == FileColumns[selectedVariable]

\* the parameters that the page derives from the selected variable's values
ParamsOfSelected ==
    IF page = "EWMAChart"
    THEN /\ ewmaParams.target = toFixed2(MeanOf(SelectedValues))
         /\ ewmaParams.sigma = toFixed2OfSqrt(VarianceOf(SelectedValues))
    ELSE /\ cusumParams.target = toFixed2(MeanOf(SelectedValues))
         /\ cusumParams.sigma = toFixed2OfSqrt(VarianceOf(SelectedValues))

\* C30: once every pending extraction has completed, whatever the order of
\* completion, the chart's rawData and its target and sigma are those of
\* the currently selected variable.
C30_AsStated ==
    (page \in ChartPages /\ NoExtractionPending) =>
        (rawData = SelectedValues /\ ParamsOfSelected)

=============================================================================
